---- MODULE Spec2Model ----
(***************************************************************************)
(* gweet: a keyed, ephemeral message queue.                                *)
(*                                                                         *)
(* The model follows the Go sources: the Cacher goroutine that owns the    *)
(* go-cache store and is fed through CacheBus, the TopicMap registry of    *)
(* per-key topic.Topic broadcast groups, the HTTP handlers, and the        *)
(* streaming handler's select loop.  Every goroutine is a process with a   *)
(* program counter; every blocking Go operation (channel send/receive,     *)
(* Lock, RLock) is the guard of the step that performs it.                 *)
(***************************************************************************)
EXTENDS Integers, Sequences, FiniteSets, TLC

(***************************************************************************)
(* Program constants.                                                      *)
(***************************************************************************)
MaxQueueLength == 100
CacheBusCap == 100
BroadcastCap == 100

(***************************************************************************)
(* Bounds of the exploration.                                              *)
(***************************************************************************)
NumPosters == 2
NumGetters == 1
NumSessions == 2
MaxWrites == 2
StoreWrites == 2
MaxTicks == 2
\* ItemLifetime in the time units of the runs that measure the store's time.
LifetimeUnits == 2
\* The messages a run goroutine takes from a full Broadcast channel in the
\* runs that start with one.
DrainBound == 2

(***************************************************************************)
(* Generic helpers.                                                        *)
(***************************************************************************)
Min(a, b) == IF a < b THEN a ELSE b
Max(a, b) == IF a > b THEN a ELSE b

\* s[lo:hi] of Go, 0-based, lo inclusive, hi exclusive.
Slice(s, lo, hi) == SubSeq(s, lo + 1, hi)

\* The trailing n entries of s (all of s when it is shorter).
LastN(s, n) == SubSeq(s, Len(s) - Min(n, Len(s)) + 1, Len(s))

(***************************************************************************)
(* Keys.  A URL key is a finite sequence; hashKey prefixes the marker 0,   *)
(* so that hashKey is injective, never the identity, and the hash of a     *)
(* hash differs from both.  Names are the URL keys of the requests.        *)
(***************************************************************************)
Names == {<<1>>, <<2>>}
hashKey(key) == <<0>> \o key
\* The hashes of the names, which a client may also put in a URL.
HashedNames == {hashKey(n) : n \in Names}
\* The keys of the store and of the registry: /stream/ hashes its URL key.
StoreKeys == {hashKey(n) : n \in Names \cup HashedNames}
\* Every string a request or a command may carry as its key.
AnyKey == Names \cup StoreKeys

FormValues == {"v"}

\* makeMessage taking the name after hashKey.
makeMessageHashed(key, values, now) ==
    [name |-> hashKey(key), values |-> values, created |-> now]

makeMessage(key, values, now) ==
    [name |-> key, values |-> values, created |-> now]

\* JSONToString of a message: json.Marshal writes the members of a map in
\* the order of their names.  A JSON object is the sequence of its members,
\* each a pair of name and value; a JSON array is the sequence of its items.
JSONToString(message) ==
    << <<"created", message.created>>, <<"name", message.name>>,
       <<"values", message.values>> >>
\* JSONResponse{"status": "success", "message": message}.String()
PostResponse(message) ==
    << <<"message", JSONToString(message)>>, <<"status", "success">> >>
\* JSONResponse{"messages": messages}.String()
GetResponse(messages) ==
    << <<"messages", [i \in 1..Len(messages) |-> JSONToString(messages[i])]>> >>

(***************************************************************************)
(* uint64 arithmetic, exact: a value is four 16-bit limbs, most            *)
(* significant first, so that 0 - 1 wraps to 2^64 - 1 as in Go.            *)
(***************************************************************************)
LimbBase == 65536
U64Zero == <<0, 0, 0, 0>>
U64One == <<0, 0, 0, 1>>

RECURSIVE U64IncAt(_, _)
U64IncAt(u, i) ==
    IF i = 0 THEN u
    ELSE IF u[i] = LimbBase - 1 THEN U64IncAt([u EXCEPT ![i] = 0], i - 1)
    ELSE [u EXCEPT ![i] = u[i] + 1]

RECURSIVE U64DecAt(_, _)
U64DecAt(u, i) ==
    IF i = 0 THEN u
    ELSE IF u[i] = 0 THEN U64DecAt([u EXCEPT ![i] = LimbBase - 1], i - 1)
    ELSE [u EXCEPT ![i] = u[i] - 1]

\* count++ and count-- on a uint64.
U64Inc(u) == U64IncAt(u, 4)
U64Dec(u) == U64DecAt(u, 4)

\* The uint64 holding the small natural n (n < LimbBase).
U64(n) == <<0, 0, 0, n>>

(***************************************************************************)
(* Processes.                                                              *)
(***************************************************************************)
Posters == 1..NumPosters
Getters == 1..NumGetters
Sessions == 1..NumSessions

VARIABLES
    clock,      \* readings of time.Now() taken so far by makeMessage
    CacheBus,   \* the buffered channel of CacheMessage
    c,          \* the go-cache store owned by Cacher: key -> []interface{}
    age,        \* go-cache: the time since each key's item was Set
    heap,       \* the backing arrays of the histories' slices, in the runs
                \* that follow them
    cacherPc,   \* where the Cacher goroutine is
    busMessage, \* the CacheMessage the Cacher is working on
    poster,     \* StreamsPostHandler tasks
    getter,     \* StreamsGetHandler tasks
    TopicMap,   \* TopicMapStruct: the map m and the state of its RWMutex
    topics,     \* the topic.Topic objects allocated so far
    chans,      \* the subscriber channels made by Register
    sess,       \* StreamsStreamingGetHandler tasks
    hist        \* history of the run, recorded for the properties only

vars == <<clock, CacheBus, c, age, heap, cacherPc, busMessage, poster, getter,
          TopicMap, topics, chans, sess, hist>>

cacheVars == <<clock, CacheBus, c, age, heap, cacherPc, busMessage, poster, getter>>
topicVars == <<TopicMap, topics, chans, sess>>

\* map lookups in Go style: v, ok := m[key]
Has(m, key) == key \in DOMAIN m
Put(m, key, v) == [x \in (DOMAIN m) \cup {key} |-> IF x = key THEN v ELSE m[x]]
Del(m, key) == [x \in (DOMAIN m) \ {key} |-> m[x]]
EmptyMap == << >>

(***************************************************************************)
(* strconv.Atoi on the raw value of the "latest" form field.  A raw value  *)
(* is a sequence of characters; the result is the pair (n, err).           *)
(***************************************************************************)
Digits == <<"0", "1", "2", "3", "4", "5", "6", "7", "8", "9">>
IsDigit(ch) == \E d \in 1..10 : Digits[d] = ch
DigitVal(ch) == (CHOOSE d \in 1..10 : Digits[d] = ch) - 1

RECURSIVE ParseDigits(_, _)
ParseDigits(s, acc) ==
    IF s = << >> THEN [n |-> acc, err |-> FALSE]
    ELSE IF ~IsDigit(Head(s)) THEN [n |-> 0, err |-> TRUE]
    ELSE ParseDigits(Tail(s), acc * 10 + DigitVal(Head(s)))

Atoi(s) ==
    IF s = << >> THEN [n |-> 0, err |-> TRUE]
    ELSE IF Head(s) \in {"-", "+"} THEN
        IF Tail(s) = << >> THEN [n |-> 0, err |-> TRUE]
        ELSE LET r == ParseDigits(Tail(s), 0)
             IN  IF r.err THEN r
                 ELSE [n |-> IF Head(s) = "-" THEN 0 - r.n ELSE r.n, err |-> FALSE]
    ELSE ParseDigits(s, 0)

\* The raw values of "latest" a request may carry (<< >>: field absent).
LatestForms ==
    { << >>, <<"x">>, <<"0">>, <<"1">>, <<"2">>, <<"-", "1">>,
      <<"9", "9">>, <<"1", "0", "0">>, <<"1", "0", "1">> }

\* ParseLatest without the test latest <= 0.
ParseLatestNoLowerTest(form) ==
    LET r == Atoi(form)
    IN  IF r.err \/ r.n >= MaxQueueLength THEN MaxQueueLength ELSE r.n

\* latest as StreamsGetHandler computes it from the form value.
ParseLatest(form) ==
    LET r == Atoi(form)
    IN  IF r.err \/ r.n <= 0 \/ r.n >= MaxQueueLength THEN MaxQueueLength ELSE r.n

\* LatestSlice taking the entries from the front of the history.
LatestSliceLeading(messages, latest) ==
    Slice(messages, 0, Min(latest, Len(messages)))

\* messages[lowerBound:upperBound] of StreamsGetHandler.
LatestSlice(messages, latest) ==
    LET lowerBound == Max(0, Len(messages) - latest)
        upperBound == Len(messages)
    IN  Slice(messages, lowerBound, upperBound)

(***************************************************************************)
(* Slices and their backing arrays.  A history is a []interface{}: a       *)
(* pointer into an array, a length and a capacity.  c.Set stores the slice *)
(* and the reply to a read carries it, so a reader and the store may point *)
(* into the same array.  heap.arr[k] is the array of the slice stored for  *)
(* key k, heap.off[k] and heap.len[k] where the slice begins in it and how *)
(* long it is; its capacity is what is left of the array.  heap.snap[g] is *)
(* the slice that the reply to g's read carries: it shares the array of    *)
(* its key, or it points into an array that the store has left, whose      *)
(* cells no statement writes any more (cells).                             *)
(***************************************************************************)
\* A message variable, or a cell of an array, that holds no message.
NilMessage == [name |-> << >>, values |-> "", created |-> 0]

NoSlice == [shared |-> FALSE, key |-> << >>, off |-> 0, len |-> 0, cells |-> << >>]

\* The heap of the runs that take histories as values: nothing is followed.
NoHeap ==
    [on |-> FALSE,
     arr |-> [k \in AnyKey |-> << >>],
     off |-> [k \in AnyKey |-> 0],
     len |-> [k \in AnyKey |-> 0],
     snap |-> [g \in Getters |-> NoSlice]]

\* The elements a slice shows now.
Deref(h, sl) ==
    IF sl.shared THEN SubSeq(h.arr[sl.key], sl.off + 1, sl.off + sl.len) ELSE sl.cells

\* The elements of the slice stored for key k.
Stored(h, k) == SubSeq(h.arr[k], h.off[k] + 1, h.off[k] + h.len[k])

\* The store leaves the arrays of keys: the readers' slices that point into
\* them keep the cells as they are.
Detach(h, keys) ==
    [h EXCEPT !.snap =
        [g \in DOMAIN h.snap |->
            IF h.snap[g].shared /\ h.snap[g].key \in keys
            THEN [shared |-> FALSE, key |-> h.snap[g].key, off |-> 0,
                  len |-> h.snap[g].len, cells |-> Deref(h, h.snap[g])]
            ELSE h.snap[g]]]

\* The capacities append may give the new array when the old one, of
\* capacity old, has no room for need elements: the language asks for a
\* sufficiently large array, the runtime doubles a small one.
GrowCaps(old, need) == {need} \cup (IF 2 * old >= need THEN {2 * old} ELSE {})

\* messages = append(messages, data) on the slice of key k: into the next
\* cell of the array when the capacity allows, else into a new array of
\* capacity newcap to which the elements are copied.
GoAppend(h, k, data, newcap) ==
    IF h.len[k] < Len(h.arr[k]) - h.off[k]
    THEN [h EXCEPT !.arr[k][h.off[k] + h.len[k] + 1] = data, !.len[k] = @ + 1]
    ELSE [Detach(h, {k}) EXCEPT
            !.arr[k] = Append(Stored(h, k), data)
                         \o [i \in 1..(newcap - h.len[k] - 1) |-> NilMessage],
            !.off[k] = 0,
            !.len[k] = h.len[k] + 1]

\* GoTruncate moving the elements down by one cell of the same array.
GoTruncateCopy(h, k) ==
    IF h.len[k] > MaxQueueLength
    THEN [h EXCEPT !.arr[k] = [i \in 1..Len(h.arr[k]) |->
                                 IF i > h.off[k] /\ i < h.off[k] + h.len[k]
                                 THEN h.arr[k][i + 1] ELSE h.arr[k][i]],
                   !.len[k] = @ - 1]
    ELSE h

\* if len(messages) > MaxQueueLength { messages = messages[1:len(messages)] }
GoTruncate(h, k) ==
    IF h.len[k] > MaxQueueLength
    THEN [h EXCEPT !.off[k] = @ + 1, !.len[k] = @ - 1]
    ELSE h

\* The write of the Cacher on the slice of key k: append, truncate, c.Set.
HeapWrite(h, k, data, newcap) == GoTruncate(GoAppend(h, k, data, newcap), k)

\* The read of the Cacher: the reply to g carries the slice stored for k,
\* or the empty slice of make([]interface{}, 0) when c.Get finds none.
HeapRead(h, g, k, found) ==
    [h EXCEPT !.snap[g] =
        IF found
        THEN [shared |-> TRUE, key |-> k, off |-> h.off[k], len |-> h.len[k],
              cells |-> << >>]
        ELSE NoSlice]

\* The items of keys expire: the next c.Get finds nothing and the Cacher
\* starts from make([]interface{}, 0).
HeapExpire(h, keys) ==
    [Detach(h, keys) EXCEPT
        !.arr = [k \in DOMAIN h.arr |-> IF k \in keys THEN << >> ELSE h.arr[k]],
        !.off = [k \in DOMAIN h.off |-> IF k \in keys THEN 0 ELSE h.off[k]],
        !.len = [k \in DOMAIN h.len |-> IF k \in keys THEN 0 ELSE h.len[k]]]

(***************************************************************************)
(* The Cacher's treatment of one command.                                  *)
(***************************************************************************)
\* value, found := c.Get(key); messages is empty when not found.
CacheGet(store, key) == IF Has(store, key) THEN store[key] ELSE << >>

\* CacherAppend truncating one entry too early (>= for >).
CacherAppendEarly(messages, data) ==
    LET appended == Append(messages, data)
    IN  IF Len(appended) >= MaxQueueLength
        THEN Slice(appended, 1, Len(appended))
        ELSE appended

\* append, then truncate the queue if it is too long.
CacherAppend(messages, data) ==
    LET appended == Append(messages, data)
    IN  IF Len(appended) > MaxQueueLength
        THEN Slice(appended, 1, Len(appended))
        ELSE appended

\* Receive taking the newest command instead of the oldest.
ReceiveNewest(bus) == [cmd |-> bus[Len(bus)], rest |-> SubSeq(bus, 1, Len(bus) - 1)]

\* busMessage := <-CacheBus: the oldest command and what stays queued.
Receive(bus) == [cmd |-> Head(bus), rest |-> Tail(bus)]

NoMessage == [operation |-> -1, data |-> [backchan |-> 0], key |-> << >>]

(***************************************************************************)
(* Initial state: main has started Cacher; no request is in flight.        *)
(***************************************************************************)
HistInit ==
    [ queued   |-> << >>,                        \* every write, in the order of its send
      applied  |-> << >>,                        \* every write the Cacher took, in order
      live     |-> [k \in AnyKey |-> 0],         \* writes applied since the entry was created
      sentAt   |-> [g \in Getters |-> 0],        \* Len(queued) when g's read was sent
      readAt   |-> [g \in Getters |-> -1],       \* Len(applied) when g's read was applied
      readLive |-> [g \in Getters |-> 0],        \* live of g's key at that moment
      form     |-> [g \in Getters |-> << >>],    \* the raw "latest" of g's request
      made     |-> [k \in AnyKey |-> {}],        \* topics ever created for the key
      recvd    |-> [s \in Sessions |-> << >>],   \* messages s took from its channel
      sent     |-> << >>,                        \* (topic, message) put on a Broadcast channel
      from     |-> [s \in Sessions |-> 0],       \* broadcasts of its topic delivered before s attached
      dropped  |-> {},                           \* channels closed by a broadcaster, with the
                                                 \* message and where the session was
      url      |-> [g \in Getters |-> << >>],    \* the URL key of g's request
      surl     |-> [s \in Sessions |-> << >>],   \* the URL key of s's request
      pushed   |-> {},                           \* POSTs to /push/ answered: key, status, message
      unreg    |-> {},                           \* Unregister calls done: the caller, the key,
                                                 \* whether the key had a group, whether the
                                                 \* channel was connected, the other connections
      wire     |-> [s \in Sessions |-> << >>],   \* what s did with its connection, in order
      ticks    |-> [s \in Sessions |-> 0],       \* keepalive intervals elapsed on s's ticker
      lost     |-> [s \in Sessions |-> 0],       \* ticks of s dropped, the channel being full
      echo     |-> [p \in Posters |-> << >>],    \* the body of the response to p's POST
      body     |-> [g \in Getters |-> << >>],    \* the body of the response to g's GET
      idle     |-> [k \in AnyKey |-> -1],        \* time units passed since the last write
                                                 \* to k was applied; -1: never written
      buf      |-> [s \in Sessions |-> 0],       \* units (the head, a chunk) that s has
                                                 \* written to bufrw and not flushed
      quiet    |-> [s \in Sessions |-> 0],       \* 1 once a keepalive interval of s has ended
                                                 \* since s last wrote a message chunk, else 0
      ahead    |-> [g \in Getters |-> 0] ]       \* 1 if a write sent before g's read was not
                                                 \* yet applied when the read was sent, else 0

Init ==
    /\ clock = 0
    /\ CacheBus = << >>
    /\ c = EmptyMap
    /\ age = [k \in AnyKey |-> 0]
    /\ heap = NoHeap
    /\ cacherPc = "recv"
    /\ busMessage = NoMessage
    /\ poster = [p \in Posters |-> [pc |-> "idle", key |-> << >>, message |-> NilMessage]]
    /\ getter = [g \in Getters |->
                   [pc |-> "idle", key |-> << >>, latest |-> 0,
                    backchan |-> << >>, resp |-> << >>]]
    /\ TopicMap = [m |-> EmptyMap, writer |-> 0, reader |-> FALSE]
    /\ topics = << >>
    /\ chans = [s \in Sessions |-> "none"]
    /\ sess = [s \in Sessions |->
                 [pc |-> "idle", key |-> << >>, t |-> 0, message |-> NilMessage, tick |-> 0]]
    /\ hist = HistInit

(***************************************************************************)
(* StreamsPostHandler.                                                     *)
(***************************************************************************)
\* ParseForm, makeMessage, hashKey.  maxClock bounds the run.
PostMake(p, name, values, maxClock) ==
    /\ poster[p].pc = "idle"
    /\ clock < maxClock
    /\ clock' = clock + 1
    /\ poster' = [poster EXCEPT ![p] =
                    [pc |-> "send", key |-> hashKey(name),
                     message |-> makeMessage(name, values, clock + 1)]]
    /\ hist' = [hist EXCEPT !.echo[p] = << >>]
    /\ UNCHANGED <<CacheBus, c, cacherPc, busMessage, getter, age, heap>>
    /\ UNCHANGED topicVars

\* PostSend putting its command in front of those already queued.
PostSendFront(p) ==
    /\ poster[p].pc = "send"
    /\ Len(CacheBus) < CacheBusCap
    /\ CacheBus' = <<[operation |-> 1, data |-> poster[p].message, key |-> poster[p].key]>>
                      \o CacheBus
    /\ poster' = [poster EXCEPT ![p].pc = "idle"]
    /\ hist' = [hist EXCEPT !.queued = Append(@,
                     [operation |-> 1, data |-> poster[p].message, key |-> poster[p].key]),
                            !.echo[p] = PostResponse(poster[p].message)]
    /\ UNCHANGED <<clock, c, cacherPc, busMessage, getter, age, heap>>
    /\ UNCHANGED topicVars

\* PostSend not waiting for room: on a full CacheBus the command takes the
\* place of the oldest one queued.
PostSendDropsOldest(p) ==
    /\ poster[p].pc = "send"
    /\ CacheBus' = Append(IF Len(CacheBus) < CacheBusCap THEN CacheBus ELSE Tail(CacheBus),
                     [operation |-> 1, data |-> poster[p].message, key |-> poster[p].key])
    /\ poster' = [poster EXCEPT ![p].pc = "idle"]
    /\ hist' = [hist EXCEPT !.queued = Append(@,
                     [operation |-> 1, data |-> poster[p].message, key |-> poster[p].key]),
                            !.echo[p] = PostResponse(poster[p].message)]
    /\ UNCHANGED <<clock, c, cacherPc, busMessage, getter, age, heap>>
    /\ UNCHANGED topicVars

\* CacheBus <- CacheMessage{1, message, key}, then the response.
PostSend(p) ==
    /\ poster[p].pc = "send"
    /\ Len(CacheBus) < CacheBusCap
    /\ CacheBus' = Append(CacheBus,
                     [operation |-> 1, data |-> poster[p].message, key |-> poster[p].key])
    /\ poster' = [poster EXCEPT ![p].pc = "idle"]
    /\ hist' = [hist EXCEPT !.queued = Append(@,
                     [operation |-> 1, data |-> poster[p].message, key |-> poster[p].key]),
                            !.echo[p] = PostResponse(poster[p].message)]
    /\ UNCHANGED <<clock, c, cacherPc, busMessage, getter, age, heap>>
    /\ UNCHANGED topicVars

(***************************************************************************)
(* The routes main registers, and a POST to /push/{key}/.                  *)
(***************************************************************************)
\* The handler mux picks for a request, by path prefix, method and the
\* query streaming=1; "NotFound" when no route matches.
Route(prefix, method, streaming) ==
    IF prefix = "/stream/" /\ method = "GET" /\ streaming
        THEN "StreamsStreamingGetHandler"
    ELSE IF prefix = "/stream/" /\ method = "GET" THEN "StreamsGetHandler"
    ELSE IF prefix = "/stream/" /\ method = "POST" THEN "StreamsPostHandler"
    ELSE "NotFound"

\* POST /push/{key}/: when routed to PushHandler, makeMessage with the key
\* as it is in the URL (no hashKey), the send on CacheBus following as in
\* PostSend; otherwise the router answers 404 and nothing else happens.
PushRequest(p, key, values, maxClock) ==
    /\ poster[p].pc = "idle"
    /\ IF Route("/push/", "POST", FALSE) = "PushHandler"
       THEN /\ clock < maxClock
            /\ clock' = clock + 1
            /\ poster' = [poster EXCEPT ![p] =
                            [pc |-> "send", key |-> key,
                             message |-> makeMessage(key, values, clock + 1)]]
            /\ hist' = [hist EXCEPT !.pushed = @ \cup
                          {[key |-> key, status |-> 200,
                            message |-> makeMessage(key, values, clock + 1)]},
                                    !.echo[p] = << >>]
       ELSE /\ hist' = [hist EXCEPT !.pushed = @ \cup
                          {[key |-> key, status |-> 404, message |-> NilMessage]}]
            /\ UNCHANGED <<clock, poster>>
    /\ UNCHANGED <<CacheBus, c, cacherPc, busMessage, getter, age, heap>>
    /\ UNCHANGED topicVars

(***************************************************************************)
(* StreamsGetHandler.                                                      *)
(***************************************************************************)
\* GetSend reading under the URL key as it is, without hashKey.
GetSendPlainKey(g, name, form, measured) ==
    /\ getter[g].pc = "idle"
    /\ Len(CacheBus) < CacheBusCap
    /\ CacheBus' = Append(CacheBus, [operation |-> 0, data |-> [backchan |-> g], key |-> name])
    /\ getter' = [getter EXCEPT ![g] =
                    [pc |-> "wait", key |-> name, latest |-> ParseLatest(form),
                     backchan |-> << >>, resp |-> << >>]]
    /\ hist' = [hist EXCEPT !.sentAt[g] = Len(hist.queued), !.readAt[g] = -1,
                            !.form[g] = form, !.url[g] = name, !.body[g] = << >>,
                            !.ahead[g] = IF g \in measured
                                         THEN Min(1, Len(hist.queued) - Len(hist.applied))
                                         ELSE @]
    /\ UNCHANGED <<clock, c, cacherPc, busMessage, poster, age, heap>>
    /\ UNCHANGED topicVars

\* hashKey, the latest parameter, make(backchan, 1), CacheBus <- read.
GetSend(g, name, form, measured) ==
    /\ getter[g].pc = "idle"
    /\ Len(CacheBus) < CacheBusCap
    /\ CacheBus' = Append(CacheBus, [operation |-> 0, data |-> [backchan |-> g], key |-> hashKey(name)])
    /\ getter' = [getter EXCEPT ![g] =
                    [pc |-> "wait", key |-> hashKey(name), latest |-> ParseLatest(form),
                     backchan |-> << >>, resp |-> << >>]]
    /\ hist' = [hist EXCEPT !.sentAt[g] = Len(hist.queued), !.readAt[g] = -1,
                            !.form[g] = form, !.url[g] = name, !.body[g] = << >>,
                            !.ahead[g] = IF g \in measured
                                         THEN Min(1, Len(hist.queued) - Len(hist.applied))
                                         ELSE @]
    /\ UNCHANGED <<clock, c, cacherPc, busMessage, poster, age, heap>>
    /\ UNCHANGED topicVars

\* messages := <-backchan, then the response with the trailing slice.
GetReply(g) ==
    /\ getter[g].pc = "wait"
    /\ getter[g].backchan # << >>
    /\ LET messages == IF heap.on THEN Deref(heap, heap.snap[g])
                                   ELSE Head(getter[g].backchan)
       IN  /\ getter' = [getter EXCEPT ![g].pc = "idle",
                                       ![g].backchan = Tail(@),
                                       ![g].resp = LatestSlice(messages, getter[g].latest)]
           /\ hist' = [hist EXCEPT !.body[g] =
                           GetResponse(LatestSlice(messages, getter[g].latest))]
    /\ heap' = IF heap.on THEN [heap EXCEPT !.snap[g] = NoSlice] ELSE heap
    /\ UNCHANGED <<clock, CacheBus, c, cacherPc, busMessage, poster, age>>
    /\ UNCHANGED topicVars

(***************************************************************************)
(* Cacher: one iteration of "for busMessage := range CacheBus".            *)
(***************************************************************************)
\* CacherRead storing the history it replies with.
CacherReadStores ==
    /\ cacherPc = "recv"
    /\ CacheBus # << >>
    /\ Receive(CacheBus).cmd.operation = 0
    /\ LET cmd == Receive(CacheBus).cmd
           messages == CacheGet(c, cmd.key)
       IN  /\ getter' = [getter EXCEPT ![cmd.data.backchan].backchan = Append(@, messages)]
           /\ c' = Put(c, cmd.key, messages)
           /\ age' = [age EXCEPT ![cmd.key] = 0]
           /\ hist' = [hist EXCEPT !.readAt[cmd.data.backchan] = Len(hist.applied),
                                   !.readLive[cmd.data.backchan] = hist.live[cmd.key]]
    /\ CacheBus' = Receive(CacheBus).rest
    /\ UNCHANGED <<clock, cacherPc, busMessage, poster, heap>>
    /\ UNCHANGED topicVars

\* CacherRead putting back what it read, which renews the item's lifetime.
CacherReadRenews ==
    /\ cacherPc = "recv"
    /\ CacheBus # << >>
    /\ Receive(CacheBus).cmd.operation = 0
    /\ LET cmd == Receive(CacheBus).cmd
           messages == CacheGet(c, cmd.key)
       IN  /\ getter' = [getter EXCEPT ![cmd.data.backchan].backchan = Append(@, messages)]
           /\ c' = IF Has(c, cmd.key) THEN Put(c, cmd.key, messages) ELSE c
           /\ age' = [age EXCEPT ![cmd.key] = 0]
           /\ hist' = [hist EXCEPT !.readAt[cmd.data.backchan] = Len(hist.applied),
                                   !.readLive[cmd.data.backchan] = hist.live[cmd.key]]
    /\ CacheBus' = Receive(CacheBus).rest
    /\ UNCHANGED <<clock, cacherPc, busMessage, poster, heap>>
    /\ UNCHANGED topicVars

\* operation == 0: c.Get, then the reply on the reader's backchan (which
\* has room for it: capacity 1, one reply per read).
CacherRead ==
    /\ cacherPc = "recv"
    /\ CacheBus # << >>
    /\ Receive(CacheBus).cmd.operation = 0
    /\ LET cmd == Receive(CacheBus).cmd
           messages == CacheGet(c, cmd.key)
       IN  /\ getter' = [getter EXCEPT ![cmd.data.backchan].backchan = Append(@, messages)]
           /\ heap' = IF heap.on
                      THEN HeapRead(heap, cmd.data.backchan, cmd.key, Has(c, cmd.key))
                      ELSE heap
           /\ hist' = [hist EXCEPT !.readAt[cmd.data.backchan] = Len(hist.applied),
                                   !.readLive[cmd.data.backchan] = hist.live[cmd.key]]
    /\ CacheBus' = Receive(CacheBus).rest
    /\ UNCHANGED <<clock, c, cacherPc, busMessage, poster, age>>
    /\ UNCHANGED topicVars

\* CacherWrite going on to the broadcast without c.Set.
CacherWriteNoSet ==
    /\ cacherPc = "recv"
    /\ CacheBus # << >>
    /\ Receive(CacheBus).cmd.operation # 0
    /\ LET cmd == Receive(CacheBus).cmd
       IN  /\ busMessage' = cmd
           /\ hist' = [hist EXCEPT !.applied = Append(@, cmd),
                                   !.live[cmd.key] = @ + 1,
                                   !.idle[cmd.key] = 0]
    /\ CacheBus' = Receive(CacheBus).rest
    /\ cacherPc' = "rlock"
    /\ UNCHANGED <<clock, c, poster, getter, age, heap>>
    /\ UNCHANGED topicVars

\* operation != 0: c.Get, append, truncate, c.Set; the broadcast follows.
CacherWrite ==
    /\ cacherPc = "recv"
    /\ CacheBus # << >>
    /\ Receive(CacheBus).cmd.operation # 0
    /\ LET cmd == Receive(CacheBus).cmd
           messages == CacherAppend(CacheGet(c, cmd.key), cmd.data)
       IN  /\ c' = Put(c, cmd.key, messages)
           /\ age' = [age EXCEPT ![cmd.key] = 0]
           /\ IF heap.on
              THEN \E newcap \in GrowCaps(Len(heap.arr[cmd.key]) - heap.off[cmd.key],
                                          heap.len[cmd.key] + 1) :
                      heap' = HeapWrite(heap, cmd.key, cmd.data, newcap)
              ELSE heap' = heap
           /\ busMessage' = cmd
           /\ hist' = [hist EXCEPT !.applied = Append(@, cmd),
                                   !.live[cmd.key] = @ + 1,
                                   !.idle[cmd.key] = 0]
    /\ CacheBus' = Receive(CacheBus).rest
    /\ cacherPc' = "rlock"
    /\ UNCHANGED <<clock, poster, getter>>
    /\ UNCHANGED topicVars

\* TopicMap.RLock()
CacherRLock ==
    /\ cacherPc = "rlock"
    /\ TopicMap.writer = 0
    /\ TopicMap' = [TopicMap EXCEPT !.reader = TRUE]
    /\ cacherPc' = "send"
    /\ UNCHANGED <<clock, CacheBus, c, busMessage, poster, getter, topics, chans, sess, hist, age, heap>>

\* CacherBroadcast putting the message on the Broadcast channel twice.
CacherBroadcastTwice ==
    /\ cacherPc = "send"
    /\ IF Has(TopicMap.m, busMessage.key)
       THEN LET t == TopicMap.m[busMessage.key].t
            IN  /\ Len(topics[t].Broadcast) + 1 < BroadcastCap
                /\ topics' = [topics EXCEPT ![t].Broadcast =
                                 Append(Append(@, busMessage.data), busMessage.data)]
                /\ hist' = [hist EXCEPT !.sent = Append(@, [t |-> t, data |-> busMessage.data])]
       ELSE UNCHANGED <<topics, hist>>
    /\ TopicMap' = [TopicMap EXCEPT !.reader = FALSE]
    /\ cacherPc' = "recv"
    /\ busMessage' = NoMessage
    /\ UNCHANGED <<clock, CacheBus, c, poster, getter, chans, sess, age, heap>>

\* CacherBroadcast handing the message over only when every subscriber of
\* the topic is waiting for it (a rendezvous instead of a buffered send).
CacherBroadcastSync ==
    /\ cacherPc = "send"
    /\ IF Has(TopicMap.m, busMessage.key)
       THEN LET t == TopicMap.m[busMessage.key].t
            IN  /\ Len(topics[t].Broadcast) < BroadcastCap
                /\ \A s \in topics[t].connections : sess[s].pc = "select"
                /\ topics' = [topics EXCEPT ![t].Broadcast = Append(@, busMessage.data)]
                /\ hist' = [hist EXCEPT !.sent = Append(@, [t |-> t, data |-> busMessage.data])]
       ELSE UNCHANGED <<topics, hist>>
    /\ TopicMap' = [TopicMap EXCEPT !.reader = FALSE]
    /\ cacherPc' = "recv"
    /\ busMessage' = NoMessage
    /\ UNCHANGED <<clock, CacheBus, c, poster, getter, chans, sess, age, heap>>

\* CacherBroadcast putting the message on the Broadcast channel of every
\* group of the registry, without the lookup of the key.
CacherBroadcastAll ==
    /\ cacherPc = "send"
    /\ \A t \in DOMAIN topics : Len(topics[t].Broadcast) < BroadcastCap
    /\ topics' = [t \in DOMAIN topics |->
                    [topics[t] EXCEPT !.Broadcast = Append(@, busMessage.data)]]
    /\ hist' = [hist EXCEPT !.sent =
                    IF Has(TopicMap.m, busMessage.key)
                    THEN Append(@, [t |-> TopicMap.m[busMessage.key].t, data |-> busMessage.data])
                    ELSE @]
    /\ TopicMap' = [TopicMap EXCEPT !.reader = FALSE]
    /\ cacherPc' = "recv"
    /\ busMessage' = NoMessage
    /\ UNCHANGED <<clock, CacheBus, c, poster, getter, chans, sess, age, heap>>

\* if currentTopic, ok := TopicMap.m[key]; ok { Broadcast <- data }; RUnlock.
\* The send blocks while the Broadcast channel is full.
CacherBroadcast ==
    /\ cacherPc = "send"
    /\ IF Has(TopicMap.m, busMessage.key)
       THEN LET t == TopicMap.m[busMessage.key].t
            IN  /\ Len(topics[t].Broadcast) < BroadcastCap
                /\ topics' = [topics EXCEPT ![t].Broadcast = Append(@, busMessage.data)]
                /\ hist' = [hist EXCEPT !.sent = Append(@, [t |-> t, data |-> busMessage.data])]
       ELSE UNCHANGED <<topics, hist>>
    /\ TopicMap' = [TopicMap EXCEPT !.reader = FALSE]
    /\ cacherPc' = "recv"
    /\ busMessage' = NoMessage
    /\ UNCHANGED <<clock, CacheBus, c, poster, getter, chans, sess, age, heap>>

\* ItemLifetime passes with no Set of key: go-cache no longer finds the item.
Elapse(key) ==
    /\ Has(c, key)
    /\ c' = Del(c, key)
    /\ age' = [age EXCEPT ![key] = 0]
    /\ heap' = IF heap.on THEN HeapExpire(heap, {key}) ELSE heap
    /\ hist' = [hist EXCEPT !.live[key] = 0]
    /\ UNCHANGED <<clock, CacheBus, cacherPc, busMessage, poster, getter>>
    /\ UNCHANGED topicVars

\* One unit of time passes, lifetime units making ItemLifetime: an item
\* that was Set lifetime units ago is no longer found by c.Get (go-cache
\* tests the expiration in Get; its janitor removes the item later).
TimePasses(lifetime) ==
    LET expired == {k \in DOMAIN c : age[k] + 1 >= lifetime}
        stale == {k \in AnyKey : hist.idle[k] + 1 >= lifetime}
    IN  /\ c' = [k \in (DOMAIN c) \ expired |-> c[k]]
        /\ age' = [k \in AnyKey |->
                     IF k \in DOMAIN c /\ k \notin expired THEN age[k] + 1 ELSE 0]
        /\ hist' = [hist EXCEPT
                      !.idle = [k \in AnyKey |->
                                  IF hist.idle[k] < 0 THEN -1
                                  ELSE Min(hist.idle[k] + 1, lifetime)],
                      !.live = [k \in AnyKey |-> IF k \in stale THEN 0 ELSE hist.live[k]]]
        /\ heap' = IF heap.on THEN HeapExpire(heap, expired) ELSE heap
        /\ UNCHANGED <<clock, CacheBus, cacherPc, busMessage, poster, getter>>
        /\ UNCHANGED topicVars

(***************************************************************************)
(* github.com/tv42/topic: a Topic has a Broadcast channel of capacity      *)
(* BroadcastCap, a set of connections guarded by a mutex, and a goroutine  *)
(* run that sends each broadcast message to every connection without       *)
(* blocking and closes and forgets a connection that is not receiving.     *)
(***************************************************************************)
\* The messages put on the Broadcast channel of topic t so far, in order.
SentTo(t) ==
    LET IsTo(e) == e.t = t
        es == SelectSeq(hist.sent, IsTo)
    IN  [i \in 1..Len(es) |-> es[i].data]

\* close(ch): a channel that is open is closed; closing a closed channel
\* panics.
Close(st) == IF st = "open" THEN "closed" ELSE "panic"

\* topic.New()
NewTopic == [Broadcast |-> << >>, connections |-> {}, busy |-> FALSE,
             msg |-> NilMessage, pending |-> {}]

\* RunRecv taking a message only while nobody holds the registry's lock.
RunRecvUnderRegistryLock(t) ==
    /\ ~topics[t].busy
    /\ TopicMap.writer = 0
    /\ ~TopicMap.reader
    /\ topics[t].Broadcast # << >>
    /\ topics' = [topics EXCEPT ![t].Broadcast = Tail(@),
                                ![t].msg = Head(topics[t].Broadcast),
                                ![t].busy = TRUE,
                                ![t].pending = topics[t].connections]
    /\ UNCHANGED <<TopicMap, chans, sess, hist>>
    /\ UNCHANGED cacheVars

\* run: msg := <-broadcast; t.lock.Lock()
RunRecv(t) ==
    /\ ~topics[t].busy
    /\ topics[t].Broadcast # << >>
    /\ topics' = [topics EXCEPT ![t].Broadcast = Tail(@),
                                ![t].msg = Head(topics[t].Broadcast),
                                ![t].busy = TRUE,
                                ![t].pending = topics[t].connections]
    /\ UNCHANGED <<TopicMap, chans, sess, hist>>
    /\ UNCHANGED cacheVars

\* run: select { case ch <- msg: default: close(ch); delete(connections, ch) }
\* The channel is unbuffered: the send succeeds only when the session that
\* owns ch is waiting in its select.  A send on a closed channel panics.
RunSend(t, ch) ==
    /\ topics[t].busy
    /\ ch \in topics[t].pending
    /\ IF chans[ch] # "open"
       THEN /\ chans' = [chans EXCEPT ![ch] = "panic"]
            /\ topics' = [topics EXCEPT ![t].pending = @ \ {ch}]
            /\ UNCHANGED <<sess, hist>>
       ELSE IF sess[ch].pc = "select"
       THEN /\ sess' = [sess EXCEPT ![ch].pc = "message",
                                    ![ch].message = topics[t].msg]
            /\ hist' = [hist EXCEPT !.recvd[ch] = Append(@, topics[t].msg)]
            /\ topics' = [topics EXCEPT ![t].pending = @ \ {ch}]
            /\ UNCHANGED chans
       ELSE /\ chans' = [chans EXCEPT ![ch] = Close(@)]
            /\ topics' = [topics EXCEPT ![t].pending = @ \ {ch},
                                        ![t].connections = @ \ {ch}]
            /\ hist' = [hist EXCEPT !.dropped = @ \cup
                          {[ch |-> ch, msg |-> topics[t].msg, pc |-> sess[ch].pc]}]
            /\ UNCHANGED sess
    /\ UNCHANGED TopicMap
    /\ UNCHANGED cacheVars

\* run: t.lock.Unlock() once every connection has been visited.
RunUnlock(t) ==
    /\ topics[t].busy
    /\ topics[t].pending = {}
    /\ topics' = [topics EXCEPT ![t].busy = FALSE, ![t].msg = NilMessage]
    /\ UNCHANGED <<TopicMap, chans, sess, hist>>
    /\ UNCHANGED cacheVars

\* (*Topic).Register(ch), the lock being free.
TopicRegister(tp, ch) == [tp EXCEPT !.connections = @ \cup {ch}]

\* (*Topic).Unregister(ch): the channel is closed only if still connected.
TopicUnregister(tp, ch) == [tp EXCEPT !.connections = @ \ {ch}]
\* ClosedByUnregister without the look at the connections: always a close.
ClosedAlways(tp, ch) == TRUE
ClosedByUnregister(tp, ch) == ch \in tp.connections

(***************************************************************************)
(* TopicMapStruct.Register and Unregister.  The map holds TopicMapEntry    *)
(* values, so "t" below is a copy of the entry.                            *)
(***************************************************************************)
LockFree == TopicMap.writer = 0 /\ ~TopicMap.reader

\* RegisterEntry without the lookup: every call makes a topic of its own.
RegisterEntryAlwaysNew(m, key, newT) ==
    LET t0 == [t |-> newT, count |-> U64Zero]
    IN  [m |-> Put(m, key, t0), t |-> [t0 EXCEPT !.count = U64Inc(@)], created |-> TRUE]

\* Lock .. Unlock of Register: the entry t the caller ends with and the map.
RegisterEntry(m, key, newT) ==
    LET ok == Has(m, key)
        t0 == IF ok THEN m[key] ELSE [t |-> newT, count |-> U64Zero]
        m1 == IF ok THEN m ELSE Put(m, key, t0)
    IN  [m |-> m1, t |-> [t0 EXCEPT !.count = U64Inc(@)], created |-> ~ok]

RegisterLocked(s) ==
    /\ sess[s].pc = "register"
    /\ LockFree
    /\ LET r == RegisterEntry(TopicMap.m, sess[s].key, Len(topics) + 1)
       IN  /\ TopicMap' = [TopicMap EXCEPT !.m = r.m]
           /\ topics' = IF r.created THEN Append(topics, NewTopic) ELSE topics
           /\ sess' = [sess EXCEPT ![s].pc = "attach", ![s].t = r.t.t]
           /\ hist' = IF r.created
                      THEN [hist EXCEPT !.made[sess[s].key] = @ \cup {r.t.t}]
                      ELSE hist
    /\ UNCHANGED chans
    /\ UNCHANGED cacheVars

\* RegisterAttach returning the channel without t.t.Register(ch).
RegisterAttachNoTopic(s) ==
    /\ sess[s].pc = "attach"
    /\ chans' = [chans EXCEPT ![s] = "open"]
    /\ sess' = [sess EXCEPT ![s].pc = "select"]
    /\ hist' = [hist EXCEPT !.from[s] =
                    Len(SentTo(sess[s].t)) - Len(topics[sess[s].t].Broadcast)]
    /\ UNCHANGED <<TopicMap, topics>>
    /\ UNCHANGED cacheVars

\* ch := make(chan interface{}); t.t.Register(ch); return ch
RegisterAttach(s) ==
    /\ sess[s].pc = "attach"
    /\ ~topics[sess[s].t].busy
    /\ chans' = [chans EXCEPT ![s] = "open"]
    /\ topics' = [topics EXCEPT ![sess[s].t] = TopicRegister(@, s)]
    /\ sess' = [sess EXCEPT ![s].pc = "select"]
    /\ hist' = [hist EXCEPT !.from[s] =
                    Len(SentTo(sess[s].t)) - Len(topics[sess[s].t].Broadcast)]
    /\ UNCHANGED TopicMap
    /\ UNCHANGED cacheVars

\* tms.Lock() of Unregister
UnregisterLock(s) ==
    /\ sess[s].pc = "unregister"
    /\ LockFree
    /\ TopicMap' = [TopicMap EXCEPT !.writer = s]
    /\ sess' = [sess EXCEPT ![s].pc = "unregbody"]
    /\ UNCHANGED <<topics, chans, hist>>
    /\ UNCHANGED cacheVars

\* UnregisterEntry testing the count before the decrement.
UnregisterEntryTestFirst(m, key) ==
    IF m[key].count = U64Zero THEN Del(m, key) ELSE m

\* UnregisterEntry writing the decremented entry back to the map.
UnregisterEntryStored(m, key) ==
    LET t == [m[key] EXCEPT !.count = U64Dec(@)]
    IN  IF t.count = U64Zero THEN Del(m, key) ELSE Put(m, key, t)

\* UnregisterEntry deleting the group whatever the count.
UnregisterEntryDeletes(m, key) == Del(m, key)

\* The map after the body of Unregister: t.count-- on the copy, delete at 0.
UnregisterEntry(m, key) ==
    LET t == [m[key] EXCEPT !.count = U64Dec(@)]
    IN  IF t.count = U64Zero THEN Del(m, key) ELSE m

\* What an Unregister call by s finds, for the record of the run.
UnregRecord(s) ==
    LET key == sess[s].key
        ok == Has(TopicMap.m, key)
        conns == IF ok THEN topics[TopicMap.m[key].t].connections ELSE {}
    IN  [s |-> s, key |-> key, ok |-> ok, member |-> s \in conns,
         others |-> Cardinality(conns \ {s})]

\* UnregisterBody returning from "not found" with the lock still held.
UnregisterBodyKeepsLock(s) ==
    /\ sess[s].pc = "unregbody"
    /\ IF ~Has(TopicMap.m, sess[s].key)
       THEN UNCHANGED <<TopicMap, topics, chans>>
       ELSE LET t == TopicMap.m[sess[s].key].t
            IN  /\ ~topics[t].busy
                /\ topics' = [topics EXCEPT ![t] = TopicUnregister(@, s)]
                /\ chans' = IF ClosedByUnregister(topics[t], s)
                            THEN [chans EXCEPT ![s] = Close(@)]
                            ELSE chans
                /\ TopicMap' = [TopicMap EXCEPT
                                  !.m = UnregisterEntry(TopicMap.m, sess[s].key),
                                  !.writer = 0]
    /\ sess' = [sess EXCEPT ![s].pc = "term"]
    /\ hist' = [hist EXCEPT !.unreg = @ \cup {UnregRecord(s)}]
    /\ UNCHANGED cacheVars

\* UnregisterBody dropping the key's history with its last subscriber.
UnregisterBodyForgets(s) ==
    /\ sess[s].pc = "unregbody"
    /\ IF ~Has(TopicMap.m, sess[s].key)
       THEN /\ TopicMap' = [TopicMap EXCEPT !.writer = 0]
            /\ UNCHANGED <<topics, chans, c>>
       ELSE LET t == TopicMap.m[sess[s].key].t
            IN  /\ ~topics[t].busy
                /\ topics' = [topics EXCEPT ![t] = TopicUnregister(@, s)]
                /\ chans' = IF ClosedByUnregister(topics[t], s)
                            THEN [chans EXCEPT ![s] = Close(@)]
                            ELSE chans
                /\ TopicMap' = [TopicMap EXCEPT
                                  !.m = UnregisterEntry(TopicMap.m, sess[s].key),
                                  !.writer = 0]
                /\ c' = IF topics[t].connections \subseteq {s} /\ Has(c, sess[s].key)
                        THEN Del(c, sess[s].key)
                        ELSE c
    /\ sess' = [sess EXCEPT ![s].pc = "term"]
    /\ hist' = [hist EXCEPT !.unreg = @ \cup {UnregRecord(s)}]
    /\ UNCHANGED <<clock, CacheBus, age, heap, cacherPc, busMessage, poster, getter>>

\* The body of Unregister and the deferred Unlock.
UnregisterBody(s) ==
    /\ sess[s].pc = "unregbody"
    /\ IF ~Has(TopicMap.m, sess[s].key)
       THEN /\ TopicMap' = [TopicMap EXCEPT !.writer = 0]
            /\ UNCHANGED <<topics, chans>>
       ELSE LET t == TopicMap.m[sess[s].key].t
            IN  /\ ~topics[t].busy
                /\ topics' = [topics EXCEPT ![t] = TopicUnregister(@, s)]
                /\ chans' = IF ClosedByUnregister(topics[t], s)
                            THEN [chans EXCEPT ![s] = Close(@)]
                            ELSE chans
                /\ TopicMap' = [TopicMap EXCEPT
                                  !.m = UnregisterEntry(TopicMap.m, sess[s].key),
                                  !.writer = 0]
    /\ sess' = [sess EXCEPT ![s].pc = "term"]
    /\ hist' = [hist EXCEPT !.unreg = @ \cup {UnregRecord(s)}]
    /\ UNCHANGED cacheVars

\* TopicMap.Unregister(key, ch) called directly, as the registry's tests
\* do, by a task that is in no handler: with a channel it never registered
\* (a task that has not started) or one it has unregistered already.
CallUnregister(s, key) ==
    /\ sess[s].pc \in {"idle", "closed"}
    /\ sess' = [sess EXCEPT ![s].pc = "unregister", ![s].key = key]
    /\ UNCHANGED <<TopicMap, topics, chans, hist>>
    /\ UNCHANGED cacheVars

(***************************************************************************)
(* StreamsStreamingGetHandler.                                             *)
(***************************************************************************)
\* JSONToString(message) + "\n", "\n" and "": the payload of a chunk is the
\* JSON documents it holds, in order, and the text after them.
MessageLine(message) == [docs |-> <<JSONToString(message)>>, text |-> "\n"]
\* KeepaliveLine with a carriage return before the line feed.
KeepaliveLineCRLF == [docs |-> << >>, text |-> "\r\n"]
KeepaliveLine == [docs |-> << >>, text |-> "\n"]
NoLine == [docs |-> << >>, text |-> ""]

\* Chunk(s): the length of s, then s.  The length of a payload is that of
\* the JSON text of its documents (json counts them) plus bytes.
Chunk(line) ==
    [size |-> [json |-> Len(line.docs), bytes |-> Len(line.text)], payload |-> line]

\* The record of what a handler does with its connection, kept for the
\* sessions in watched: the response head, every chunk whose Write and Flush
\* succeeded, a failed Write or Flush, the Close.
WireHead == [op |-> "head"]
WireChunk(line) == [op |-> "chunk", chunk |-> Chunk(line)]
WireError == [op |-> "error"]
WireClose == [op |-> "close"]
Wire(h, s, watched, entries) ==
    IF s \in watched THEN [h EXCEPT !.wire[s] = @ \o entries] ELSE h

\* SessStart with the Flush of the response head failing: the handler does
\* not look at the error of bufrw.Flush() and goes on to register; the head
\* stays in bufrw, whose Writes all fail from then on.
SessStartUnflushed(s, name, watched) ==
    /\ sess[s].pc = "idle"
    /\ sess' = [sess EXCEPT ![s].pc = "register", ![s].key = hashKey(name)]
    /\ hist' = LET h == Wire([hist EXCEPT !.surl[s] = name], s, watched, <<WireError>>)
               IN  IF s \in watched THEN [h EXCEPT !.buf[s] = 1] ELSE h
    /\ UNCHANGED <<TopicMap, topics, chans>>
    /\ UNCHANGED cacheVars

\* Hijack, the response head, Flush, hashKey; TopicMap.Register comes next.
SessStart(s, name, watched) ==
    /\ sess[s].pc = "idle"
    /\ sess' = [sess EXCEPT ![s].pc = "register", ![s].key = hashKey(name)]
    /\ hist' = Wire([hist EXCEPT !.surl[s] = name], s, watched, <<WireHead>>)
    /\ UNCHANGED <<TopicMap, topics, chans>>
    /\ UNCHANGED cacheVars

\* case <-ticker, for runs that do not measure time: an interval ends
\* while the session waits in its select, and the session takes the tick.
SessTick(s) ==
    /\ sess[s].pc = "select"
    /\ sess' = [sess EXCEPT ![s].pc = "keepalive"]
    /\ UNCHANGED <<TopicMap, topics, chans, hist>>
    /\ UNCHANGED cacheVars

\* time.Tick(30 * time.Second): the channel holds one tick.  At the end of
\* an interval the runtime sends a tick without blocking, so a tick that
\* finds the previous one still in the channel is dropped.  The ticker
\* exists from the return of Register on; maxTicks bounds the run.  A
\* session that waits in its select takes a tick well within an interval,
\* so a tick finds the channel full only while the session is writing.
TickerFire(s, measured, maxTicks) ==
    /\ sess[s].pc \in {"select", "message", "keepalive"}
    /\ ~(sess[s].pc = "select" /\ sess[s].tick = 1)
    /\ hist.ticks[s] < maxTicks
    /\ sess' = [sess EXCEPT ![s].tick = 1]
    /\ hist' = [hist EXCEPT !.ticks[s] = @ + 1,
                            !.lost[s] = @ + sess[s].tick,
                            !.quiet[s] = IF s \in measured THEN 1 ELSE @]
    /\ UNCHANGED <<TopicMap, topics, chans>>
    /\ UNCHANGED cacheVars

\* case <-ticker, the tick being in the channel.
TickerRecv(s) ==
    /\ sess[s].pc = "select"
    /\ sess[s].tick = 1
    /\ sess' = [sess EXCEPT ![s].pc = "keepalive", ![s].tick = 0]
    /\ UNCHANGED <<TopicMap, topics, chans, hist>>
    /\ UNCHANGED cacheVars

\* case message, ok := <-messageBus with ok false: return.
SessClosed(s) ==
    /\ sess[s].pc = "select"
    /\ chans[s] = "closed"
    /\ sess' = [sess EXCEPT ![s].pc = "unregister"]
    /\ UNCHANGED <<TopicMap, topics, chans, hist>>
    /\ UNCHANGED cacheVars

\* SessWrite returning after the first chunk, written or not.
SessWriteReturns(s, ok, watched) ==
    /\ sess[s].pc \in {"message", "keepalive"}
    /\ sess' = [sess EXCEPT ![s].pc = "unregister", ![s].message = NilMessage]
    /\ LET line == IF sess[s].pc = "message" THEN MessageLine(sess[s].message)
                                             ELSE KeepaliveLine
       IN  hist' = Wire(hist, s, watched, IF ok THEN <<WireChunk(line)>> ELSE <<WireError>>)
    /\ UNCHANGED <<TopicMap, topics, chans>>
    /\ UNCHANGED cacheVars

\* SessWrite going round the loop again after an error.
SessWriteIgnoresError(s, ok, watched) ==
    /\ sess[s].pc \in {"message", "keepalive"}
    /\ sess' = [sess EXCEPT ![s].pc = "select", ![s].message = NilMessage]
    /\ LET line == IF sess[s].pc = "message" THEN MessageLine(sess[s].message)
                                             ELSE KeepaliveLine
       IN  hist' = Wire(hist, s, watched, IF ok THEN <<WireChunk(line)>> ELSE <<WireError>>)
    /\ UNCHANGED <<TopicMap, topics, chans>>
    /\ UNCHANGED cacheVars

\* SessWrite without the Flush: the chunk stays in bufrw.
SessWriteUnflushed(s, ok, watched) ==
    /\ sess[s].pc \in {"message", "keepalive"}
    /\ sess' = [sess EXCEPT ![s].pc = IF ok THEN "select" ELSE "unregister",
                            ![s].message = NilMessage]
    /\ hist' = IF s \notin watched THEN hist
               ELSE IF ok THEN [hist EXCEPT !.buf[s] = @ + 1]
               ELSE Wire(hist, s, watched, <<WireError>>)
    /\ UNCHANGED <<TopicMap, topics, chans>>
    /\ UNCHANGED cacheVars

\* bufrw.Write(Chunk(..)) and bufrw.Flush(); an error returns.  A Write to
\* a bufrw that holds what an earlier Flush could not send fails; a chunk
\* whose Flush fails stays in bufrw.
SessWrite(s, ok, watched) ==
    /\ sess[s].pc \in {"message", "keepalive"}
    /\ ok => hist.buf[s] = 0
    /\ sess' = [sess EXCEPT ![s].pc = IF ok THEN "select" ELSE "unregister",
                            ![s].message = NilMessage]
    /\ LET line == IF sess[s].pc = "message" THEN MessageLine(sess[s].message)
                                             ELSE KeepaliveLine
           h == Wire(hist, s, watched, IF ok THEN <<WireChunk(line)>> ELSE <<WireError>>)
       IN  hist' = IF s \notin watched THEN h
                   ELSE IF ~ok THEN [h EXCEPT !.buf[s] = IF @ = 0 THEN 1 ELSE @]
                   ELSE IF sess[s].pc = "message" THEN [h EXCEPT !.quiet[s] = 0]
                   ELSE h
    /\ UNCHANGED <<TopicMap, topics, chans>>
    /\ UNCHANGED cacheVars

\* SessClose running its defers in the order they were written.
SessCloseFirst(s, watched) ==
    /\ sess[s].pc = "term"
    /\ sess' = [sess EXCEPT ![s].pc = "closed"]
    /\ hist' = Wire(hist, s, watched, <<WireClose, WireChunk(NoLine)>>)
    /\ UNCHANGED <<TopicMap, topics, chans>>
    /\ UNCHANGED cacheVars

\* The remaining defers, last deferred first: conn.Write(Chunk("")), then
\* conn.Close().
SessClose(s, watched) ==
    /\ sess[s].pc = "term"
    /\ sess' = [sess EXCEPT ![s].pc = "closed"]
    /\ hist' = Wire(hist, s, watched, <<WireChunk(NoLine), WireClose>>)
    /\ UNCHANGED <<TopicMap, topics, chans>>
    /\ UNCHANGED cacheVars

(***************************************************************************)
(* The program.                                                            *)
(***************************************************************************)
TopicIds == 1..Len(topics)

\* The request handlers that write and read the history.
PostNext(posters, names, maxClock) ==
    \/ \E p \in posters, n \in names, v \in FormValues :
          PostMake(p, n, v, maxClock)
    \/ \E p \in posters : PostSend(p)

GetNext(names, forms, measured) ==
    \/ \E g \in Getters, n \in names, f \in forms : GetSend(g, n, f, measured)
    \/ \E g \in Getters : GetReply(g)

CacherNext ==
    \/ CacherRead
    \/ CacherWrite
    \/ CacherRLock
    \/ CacherBroadcast

\* The streaming sessions, with Register and Unregister.
SessNext(names) ==
    \/ \E s \in Sessions, n \in names : SessStart(s, n, {})
    \/ \E s \in Sessions : RegisterLocked(s)
    \/ \E s \in Sessions : RegisterAttach(s)
    \/ \E s \in Sessions : SessTick(s)
    \/ \E s \in Sessions : SessClosed(s)
    \/ \E s \in Sessions, ok \in BOOLEAN : SessWrite(s, ok, {})
    \/ \E s \in Sessions : UnregisterLock(s)
    \/ \E s \in Sessions : UnregisterBody(s)
    \/ \E s \in Sessions : SessClose(s, {})

\* The topics whose run goroutine is alive: run ends when the topic's
\* Broadcast channel is closed, and nothing closes one.
LiveWorkers == TopicIds

\* The run goroutine of every topic.
RunNext ==
    \/ \E t \in TopicIds : RunRecv(t)
    \/ \E t \in TopicIds, ch \in Sessions : RunSend(t, ch)
    \/ \E t \in TopicIds : RunUnlock(t)

\* Streaming: sessions, registry, broadcast, fed by the ingest path (which
\* CacheBus serialises: one poster, writing to the sessions' key), with
\* history requests on the same key going through the Cacher.
StreamNames == {<<1>>}
\* The history requests of these runs carry no latest parameter.
StreamForms == {<< >>}

StreamNext ==
    \/ PostNext({1}, StreamNames, MaxWrites)
    \/ GetNext(StreamNames, StreamForms, {})
    \/ CacherNext
    \/ SessNext(StreamNames)
    \/ RunNext

StreamSpec == Init /\ [][StreamNext]_vars

\* The Go scheduler runs every goroutine that can run: the Cacher, the run
\* goroutines and an Unregister that holds the lock do take their steps.  A
\* session may stay in a write to its connection for ever, and requests
\* need not arrive.
StreamFairSpec ==
    /\ StreamSpec
    /\ WF_vars(CacherNext)
    /\ WF_vars(RunNext)
    /\ \A s \in Sessions : WF_vars(UnregisterBody(s))

\* Requests that use the hash of a name: POST /push/{h}/, and reads and
\* streaming sessions that put h in the place of the name, next to the
\* ordinary requests on the name itself.
HashName == <<1>>
HashUrlKeys == {HashName, hashKey(HashName)}

PushNext(posters, keys, maxClock) ==
    \E p \in posters, key \in keys, v \in FormValues : PushRequest(p, key, v, maxClock)

HashNext ==
    \/ PostNext({1}, HashUrlKeys, 1)
    \/ PushNext({1}, {hashKey(HashName)}, 1)
    \/ GetNext(HashUrlKeys, StreamForms, {})
    \/ CacherNext
    \/ SessNext(HashUrlKeys)
    \/ RunNext

HashSpec == Init /\ [][HashNext]_vars

\* The history store with its time measured: requests on one key, the
\* Cacher, and time passing in units of which LifetimeUnits make
\* ItemLifetime.
ExpiryNext ==
    \/ PostNext(Posters, StreamNames, StoreWrites)
    \/ GetNext(StreamNames, StreamForms, {})
    \/ CacherNext
    \/ TimePasses(LifetimeUnits)

ExpirySpec == Init /\ [][ExpiryNext]_vars

\* Streaming with the connections recorded and time measured: the ticker of
\* every session fires at the end of each keepalive interval, MaxTicks
\* intervals at most, and the session takes the ticks from its channel.
TimedSessNext(names, watched, measured, maxTicks) ==
    \/ \E s \in Sessions, n \in names : SessStart(s, n, watched)
    \/ \E s \in Sessions : RegisterLocked(s)
    \/ \E s \in Sessions : RegisterAttach(s)
    \/ \E s \in Sessions : TickerFire(s, measured, maxTicks)
    \/ \E s \in Sessions : TickerRecv(s)
    \/ \E s \in Sessions : SessClosed(s)
    \/ \E s \in Sessions, ok \in BOOLEAN : SessWrite(s, ok, watched)
    \/ \E s \in Sessions : UnregisterLock(s)
    \/ \E s \in Sessions : UnregisterBody(s)
    \/ \E s \in Sessions : SessClose(s, watched)

SessionNext ==
    \/ PostNext({1}, StreamNames, MaxWrites)
    \/ CacherWrite
    \/ CacherRLock
    \/ CacherBroadcast
    \/ TimedSessNext(StreamNames, Sessions, {}, MaxTicks)
    \/ RunNext

SessionSpec == Init /\ [][SessionNext]_vars

\* The same on a shorter run, for what must come about: one write, one
\* interval.  The scheduler runs every goroutine that can run, and a Lock
\* that is free is obtained, so the Cacher, the run goroutines and every
\* Unregister take their steps; writes to a connection may last for ever
\* and requests need not arrive.
TeardownNext ==
    \/ PostNext({1}, StreamNames, 1)
    \/ CacherWrite
    \/ CacherRLock
    \/ CacherBroadcast
    \/ TimedSessNext(StreamNames, Sessions, {}, 1)
    \/ RunNext

TeardownSpec == Init /\ [][TeardownNext]_vars

TeardownFairSpec ==
    /\ TeardownSpec
    /\ WF_vars(CacherWrite \/ CacherRLock \/ CacherBroadcast)
    /\ WF_vars(RunNext)
    /\ \A s \in Sessions : WF_vars(UnregisterLock(s)) /\ WF_vars(UnregisterBody(s))

\* The same with one write and one interval more than MaxTicks, so that
\* two intervals can end during one write to a connection.
KeepaliveNext ==
    \/ PostNext({1}, StreamNames, 1)
    \/ CacherWrite
    \/ CacherRLock
    \/ CacherBroadcast
    \/ TimedSessNext(StreamNames, Sessions, Sessions, MaxTicks + 1)
    \/ RunNext

KeepaliveSpec == Init /\ [][KeepaliveNext]_vars

\* Streaming with the connections and their buffers recorded, the Flush of
\* the response head succeeding or failing.
FlushNext ==
    \/ PostNext({1}, StreamNames, 1)
    \/ CacherWrite
    \/ CacherRLock
    \/ CacherBroadcast
    \/ TimedSessNext(StreamNames, Sessions, {}, 1)
    \/ \E s \in Sessions, n \in StreamNames : SessStartUnflushed(s, n, Sessions)
    \/ RunNext

FlushSpec == Init /\ [][FlushNext]_vars

\* The registry called directly as well: Unregister with any key, by tasks
\* that hold no registration.
RegistryKeys == {hashKey(n) : n \in Names}
CallNext == \E s \in Sessions, key \in RegistryKeys : CallUnregister(s, key)

RegistryNext ==
    \/ PostNext({1}, StreamNames, 1)
    \/ GetNext(StreamNames, StreamForms, {})
    \/ CacherNext
    \/ SessNext(StreamNames)
    \/ CallNext
    \/ RunNext

RegistrySpec == Init /\ [][RegistryNext]_vars

\* Streaming on two keys, one that is written and one that is read.
WrittenName == <<1>>
ReadName == <<2>>

LifecycleNext ==
    \/ PostNext({1}, {WrittenName}, 1)
    \/ GetNext({ReadName}, StreamForms, {})
    \/ CacherNext
    \/ SessNext({WrittenName, ReadName})
    \/ RunNext

LifecycleSpec == Init /\ [][LifecycleNext]_vars

\* Requests on two keys at once: POSTs to either, history requests for the
\* first, and a streaming session on each (session 1 on the first key,
\* session 2 on the second); no keepalive interval ends during the run.
IsolationNames == {WrittenName, ReadName}

IsolationNext ==
    \/ PostNext({1}, IsolationNames, MaxWrites)
    \/ GetNext({WrittenName}, StreamForms, {})
    \/ CacherNext
    \/ SessStart(1, WrittenName, {})
    \/ SessStart(2, ReadName, {})
    \/ \E s \in Sessions : RegisterLocked(s)
    \/ \E s \in Sessions : RegisterAttach(s)
    \/ \E s \in Sessions : SessClosed(s)
    \/ \E s \in Sessions, ok \in BOOLEAN : SessWrite(s, ok, {})
    \/ \E s \in Sessions : UnregisterLock(s)
    \/ \E s \in Sessions : UnregisterBody(s)
    \/ \E s \in Sessions : SessClose(s, {})
    \/ RunNext

IsolationSpec == Init /\ [][IsolationNext]_vars

(***************************************************************************)
(* The history store on its own: the ingest and read handlers and the      *)
(* Cacher, on one key.  A run starts after warm POSTs to it have been      *)
(* handled one after the other, so that histories at and beyond            *)
(* MaxQueueLength are reached; the warm history is computed by the         *)
(* Cacher's own append-and-truncate.                                       *)
(***************************************************************************)
WarmName == <<1>>
\* The i-th of n warm messages; they are older than the run: created <= 0.
WarmMessage(i, n) == makeMessage(WarmName, "v", i - n)
WarmCommands(n) ==
    [i \in 1..n |-> [operation |-> 1, data |-> WarmMessage(i, n), key |-> hashKey(WarmName)]]

\* The Cacher's append-and-truncate applied to warm messages lo..hi of n in
\* turn, starting from history h (split in halves to keep the recursion flat).
RECURSIVE WarmApply(_, _, _, _)
WarmApply(h, lo, hi, n) ==
    IF lo > hi THEN h
    ELSE IF lo = hi THEN CacherAppend(h, WarmMessage(lo, n))
    ELSE LET mid == (lo + hi) \div 2
             left == WarmApply(h, lo, mid, n)
         IN  \* the test makes the first half a value before the second starts
             IF Len(left) >= 0 THEN WarmApply(left, mid + 1, hi, n) ELSE left
WarmHistory(n) == WarmApply(<< >>, 1, n, n)

WarmWrites == {MaxQueueLength - 1, MaxQueueLength + 50}

StoreInit ==
    \E n \in WarmWrites :
        /\ clock = 0
        /\ CacheBus = << >>
        /\ c = IF n = 0 THEN EmptyMap ELSE Put(EmptyMap, hashKey(WarmName), WarmHistory(n))
        /\ age = [k \in AnyKey |-> 0]
        /\ heap = NoHeap
        /\ cacherPc = "recv"
        /\ busMessage = NoMessage
        /\ poster = [p \in Posters |-> [pc |-> "idle", key |-> << >>, message |-> NilMessage]]
        /\ getter = [g \in Getters |->
                       [pc |-> "idle", key |-> << >>, latest |-> 0,
                        backchan |-> << >>, resp |-> << >>]]
        /\ TopicMap = [m |-> EmptyMap, writer |-> 0, reader |-> FALSE]
        /\ topics = << >>
        /\ chans = [s \in Sessions |-> "none"]
        /\ sess = [s \in Sessions |->
                 [pc |-> "idle", key |-> << >>, t |-> 0, message |-> NilMessage, tick |-> 0]]
        /\ hist = [HistInit EXCEPT !.queued = WarmCommands(n),
                                   !.applied = WarmCommands(n),
                                   !.live[hashKey(WarmName)] = n]

StoreNext ==
    \/ PostNext(Posters, {WarmName}, StoreWrites)
    \/ GetNext({WarmName}, LatestForms, {})
    \/ CacherNext
    \/ Elapse(hashKey(WarmName))

StoreSpec == StoreInit /\ [][StoreNext]_vars

\* The history store with the arrays of its slices followed.  The warm
\* writes are applied by the Cacher's own append, truncate and Set, every
\* new array having twice the capacity of the one before it, as the runtime
\* gives it.
RECURSIVE WarmHeapApply(_, _, _, _)
WarmHeapApply(h, lo, hi, n) ==
    LET k == hashKey(WarmName)
    IN  IF lo > hi THEN h
        ELSE IF lo = hi
        THEN LET old == Len(h.arr[k]) - h.off[k]
             IN  HeapWrite(h, k, WarmMessage(lo, n), Max(2 * old, h.len[k] + 1))
        ELSE LET mid == (lo + hi) \div 2
                 left == WarmHeapApply(h, lo, mid, n)
             IN  \* the test makes the first half a value before the second starts
                 IF left.on THEN WarmHeapApply(left, mid + 1, hi, n) ELSE left
WarmHeap(n) == WarmHeapApply([NoHeap EXCEPT !.on = TRUE], 1, n, n)

\* After MaxQueueLength - 1 writes the array has room behind the slice;
\* after MaxQueueLength + 28 the slice ends where the array ends.
SliceWarmWrites == {MaxQueueLength - 1, MaxQueueLength + 28}

SliceInit ==
    \E n \in SliceWarmWrites :
        /\ clock = 0
        /\ CacheBus = << >>
        /\ c = Put(EmptyMap, hashKey(WarmName), WarmHistory(n))
        /\ age = [k \in AnyKey |-> 0]
        /\ heap = WarmHeap(n)
        /\ cacherPc = "recv"
        /\ busMessage = NoMessage
        /\ poster = [p \in Posters |-> [pc |-> "idle", key |-> << >>, message |-> NilMessage]]
        /\ getter = [g \in Getters |->
                       [pc |-> "idle", key |-> << >>, latest |-> 0,
                        backchan |-> << >>, resp |-> << >>]]
        /\ TopicMap = [m |-> EmptyMap, writer |-> 0, reader |-> FALSE]
        /\ topics = << >>
        /\ chans = [s \in Sessions |-> "none"]
        /\ sess = [s \in Sessions |->
                 [pc |-> "idle", key |-> << >>, t |-> 0, message |-> NilMessage, tick |-> 0]]
        /\ hist = [HistInit EXCEPT !.queued = WarmCommands(n),
                                   !.applied = WarmCommands(n),
                                   !.live[hashKey(WarmName)] = n]

SliceSpec == SliceInit /\ [][StoreNext]_vars

\* The history store behind a stalled Cacher: a run starts after POSTs have
\* been handled while the Cacher took nothing, CacheBus holding one command
\* less than its capacity or being full.
BacklogSizes == {CacheBusCap - 1, CacheBusCap}

BacklogInit ==
    \E n \in BacklogSizes :
        /\ clock = 0
        /\ CacheBus = WarmCommands(n)
        /\ c = EmptyMap
        /\ age = [k \in AnyKey |-> 0]
        /\ heap = NoHeap
        /\ cacherPc = "recv"
        /\ busMessage = NoMessage
        /\ poster = [p \in Posters |-> [pc |-> "idle", key |-> << >>, message |-> NilMessage]]
        /\ getter = [g \in Getters |->
                       [pc |-> "idle", key |-> << >>, latest |-> 0,
                        backchan |-> << >>, resp |-> << >>]]
        /\ TopicMap = [m |-> EmptyMap, writer |-> 0, reader |-> FALSE]
        /\ topics = << >>
        /\ chans = [s \in Sessions |-> "none"]
        /\ sess = [s \in Sessions |->
                 [pc |-> "idle", key |-> << >>, t |-> 0, message |-> NilMessage, tick |-> 0]]
        /\ hist = [HistInit EXCEPT !.queued = WarmCommands(n)]

BacklogNext ==
    \/ PostNext(Posters, {WarmName}, StoreWrites)
    \/ GetNext({WarmName}, StreamForms, Getters)
    \/ CacherNext

BacklogSpec == BacklogInit /\ [][BacklogNext]_vars

\* Streaming behind a stalled run goroutine: a run starts when session 1 has
\* registered on WarmName, creating its group, and POSTs to WarmName have
\* then been applied and broadcast while the group's run goroutine took
\* nothing, so that the Broadcast channel is full.  The connections of this
\* run accept no write: a session leaves at its first message or keepalive.
CongestedInit ==
    LET n == BroadcastCap
        key == hashKey(WarmName)
        sent == [i \in 1..n |-> [t |-> 1, data |-> WarmMessage(i, n)]]
    IN  /\ clock = 0
        /\ CacheBus = << >>
        /\ c = Put(EmptyMap, key, WarmHistory(n))
        /\ age = [k \in AnyKey |-> 0]
        /\ heap = NoHeap
        /\ cacherPc = "recv"
        /\ busMessage = NoMessage
        /\ poster = [p \in Posters |-> [pc |-> "idle", key |-> << >>, message |-> NilMessage]]
        /\ getter = [g \in Getters |->
                       [pc |-> "idle", key |-> << >>, latest |-> 0,
                        backchan |-> << >>, resp |-> << >>]]
        /\ TopicMap = [m |-> Put(EmptyMap, key, [t |-> 1, count |-> U64Zero]),
                       writer |-> 0, reader |-> FALSE]
        /\ topics = <<[NewTopic EXCEPT !.Broadcast = [i \in 1..n |-> WarmMessage(i, n)],
                                       !.connections = {1}]>>
        /\ chans = [s \in Sessions |-> IF s = 1 THEN "open" ELSE "none"]
        /\ sess = [s \in Sessions |->
                     IF s = 1
                     THEN [pc |-> "select", key |-> key, t |-> 1,
                           message |-> NilMessage, tick |-> 0]
                     ELSE [pc |-> "idle", key |-> << >>, t |-> 0,
                           message |-> NilMessage, tick |-> 0]]
        /\ hist = [HistInit EXCEPT !.queued = WarmCommands(n),
                                   !.applied = WarmCommands(n),
                                   !.live[key] = n,
                                   !.idle[key] = 0,
                                   !.made[key] = {1},
                                   !.sent = sent,
                                   !.surl[1] = WarmName]

\* The run goroutines, which take a message while the backlog is within
\* DrainBound of the full channel (the bound of the run).
CongestedRun ==
    \/ \E t \in TopicIds :
          Len(topics[t].Broadcast) > BroadcastCap - DrainBound /\ RunRecv(t)
    \/ \E t \in TopicIds, ch \in Sessions : RunSend(t, ch)
    \/ \E t \in TopicIds : RunUnlock(t)

CongestedNext ==
    \/ PostNext({1}, {WarmName}, 1)
    \/ GetNext({WarmName}, StreamForms, {})
    \/ CacherNext
    \/ \E s \in Sessions : SessStart(s, WarmName, {})
    \/ \E s \in Sessions : RegisterLocked(s)
    \/ \E s \in Sessions : RegisterAttach(s)
    \/ \E s \in Sessions : SessWrite(s, FALSE, {})
    \/ \E s \in Sessions : UnregisterLock(s)
    \/ \E s \in Sessions : UnregisterBody(s)
    \/ \E s \in Sessions : SessClose(s, {})
    \/ CongestedRun

CongestedSpec == CongestedInit /\ [][CongestedNext]_vars

\* The Go scheduler runs every goroutine that can run: the Cacher, the run
\* goroutines, and a Register or an Unregister that can take or holds the
\* lock.  Requests need not arrive.
CongestedFairSpec ==
    /\ CongestedSpec
    /\ WF_vars(CacherNext)
    /\ WF_vars(CongestedRun)
    /\ \A s \in Sessions : WF_vars(UnregisterBody(s))

(***************************************************************************)
(* Properties of the history store.                                        *)
(***************************************************************************)
\* The messages of the writes to key among the commands cmds, in order.
WritesTo(key, cmds) ==
    LET IsWrite(cmd) == cmd.operation # 0 /\ cmd.key = key
        writes == SelectSeq(cmds, IsWrite)
    IN  [i \in 1..Len(writes) |-> writes[i].data]

\* The writes to key applied so far, and those applied before g's read.
Log(key) == WritesTo(key, hist.applied)
ReadLog(g) == WritesTo(getter[g].key, SubSeq(hist.applied, 1, hist.readAt[g]))

\* C1: the history of every key, and every reply to a Read, is exactly the
\* last min(N, MaxQueueLength) messages written to the key, in the order they
\* were written, N being the number of writes applied since the key's entry
\* was created (no expiry in between).
C1_LastWritesInOrder ==
    /\ \A k \in DOMAIN c :
          c[k] = LastN(Log(k), Min(hist.live[k], MaxQueueLength))
    /\ \A g \in Getters :
          (getter[g].backchan # << >> /\ hist.readAt[g] >= 0) =>
             Head(getter[g].backchan) =
                LastN(ReadLog(g), Min(hist.readLive[g], MaxQueueLength))

\* A Read was answered with a full history from which a write of this run
\* evicted the oldest entry.
C1_Witness ==
    \E g \in Getters :
        /\ getter[g].backchan # << >>
        /\ hist.readLive[g] > MaxQueueLength
        /\ Len(Head(getter[g].backchan)) = MaxQueueLength
        /\ Head(getter[g].backchan)[MaxQueueLength].created > 0

\* The writes among the commands waiting on CacheBus, in order.
WritesQueued ==
    LET IsWrite(cmd) == cmd.operation # 0
    IN  SelectSeq(CacheBus, IsWrite)

\* C2: commands are applied one at a time in the order of their sends: the
\* writes sent are the writes applied followed by the writes still queued; a
\* Read is applied after exactly the writes that were sent before it; no
\* reply and no stored history is longer than MaxQueueLength (no half-applied
\* write is visible); and a key's history lists its writes in sending order.
C2_AppliedInQueueOrder ==
    /\ hist.queued = hist.applied \o WritesQueued
    /\ \A g \in Getters :
          hist.readAt[g] >= 0 => hist.readAt[g] = hist.sentAt[g]
    /\ \A g \in Getters :
          getter[g].backchan # << >> => Len(Head(getter[g].backchan)) <= MaxQueueLength
    /\ \A k \in DOMAIN c :
          /\ Len(c[k]) <= MaxQueueLength
          /\ c[k] = LastN(WritesTo(k, SubSeq(hist.queued, 1, Len(hist.applied))), Len(c[k]))

\* Two writes of this run were waiting on CacheBus together, sent in the
\* opposite order of their timestamps, and a Read was answered after a
\* write behind it had been sent.
C2_Witness ==
    /\ Len(hist.applied) >= 2
    /\ LET n == Len(hist.applied)
       IN  /\ hist.applied[n].data.created > 0
           /\ hist.applied[n - 1].data.created > hist.applied[n].data.created
    /\ \E g \in Getters :
          /\ getter[g].backchan # << >>
          /\ Len(hist.queued) > hist.sentAt[g]
          /\ Len(Head(getter[g].backchan)) = MaxQueueLength

(***************************************************************************)
(* Properties of the topic registry.                                       *)
(***************************************************************************)
\* Register(key) has returned to s and Unregister(key, ch) has not.
Subscribed(s) == sess[s].pc \in {"select", "message", "keepalive", "unregister", "unregbody"}
\* s is inside Register, or inside Unregister holding the lock.
InCall(s) == sess[s].pc \in {"register", "attach", "unregbody"}
\* The sessions that hold a subscription to key (Unregister not begun or
\* waiting for the lock counts as held).
Subscribers(key) == {s \in Sessions : sess[s].key = key /\ Subscribed(s)}
\* No Register or Unregister call on key is in progress.
Quiescent(key) == \A s \in Sessions : sess[s].key = key => ~InCall(s)

\* C3: for every key, between calls, the registry holds a group for the key
\* if and only if some session holds a subscription to it.
C3_GroupIffSubscribed ==
    \A k \in StoreKeys :
        Quiescent(k) => (Has(TopicMap.m, k) <=> Subscribers(k) # {})

\* C4: for every key, between calls, the stored count of the key's group is
\* the number of channels registered and not yet unregistered.
C4_CountIsRegisteredMinusUnregistered ==
    \A k \in StoreKeys :
        (Quiescent(k) /\ Has(TopicMap.m, k)) =>
            TopicMap.m[k].count = U64(Cardinality(Subscribers(k)))

\* C5: once every task has registered, possibly received a broadcast, and
\* unregistered, the registry has no entry left.
C5_EmptyAfterAllUnregistered ==
    (\A s \in Sessions : sess[s].pc \in {"term", "closed"}) => DOMAIN TopicMap.m = {}

\* C6: at most one group is ever created for a key by Register calls that
\* find no group, and every caller of Register holds that group.
C6_OneGroupPerKey ==
    /\ \A k \in StoreKeys : Cardinality(hist.made[k]) <= 1
    /\ \A s \in Sessions :
          sess[s].pc \in {"attach", "select", "message", "keepalive"} =>
              hist.made[sess[s].key] = {sess[s].t}

\* Two Register calls on a key that had no group were in progress together.
C6_Witness ==
    \E s1, s2 \in Sessions :
        /\ s1 # s2
        /\ sess[s1].pc = "attach" /\ sess[s2].pc = "attach"
        /\ sess[s1].key = sess[s2].key
        /\ sess[s1].t = sess[s2].t

\* C7: a channel is only ever attached to the group the registry holds for
\* its key, and a session waiting on an open channel is attached to it.
C7_AttachedToRegisteredGroup ==
    /\ \A t \in TopicIds : \A s \in topics[t].connections :
          Has(TopicMap.m, sess[s].key) /\ TopicMap.m[sess[s].key].t = t
    /\ \A s \in Sessions :
          (sess[s].pc \in {"select", "message", "keepalive"} /\ chans[s] = "open") =>
              /\ Has(TopicMap.m, sess[s].key)
              /\ s \in topics[TopicMap.m[sess[s].key].t].connections

\* A session is attached and waiting after another session of the same key
\* has gone through Unregister.
C7_Witness ==
    \E s1, s2 \in Sessions :
        /\ sess[s1].pc \in {"term", "closed"}
        /\ sess[s2].pc = "select" /\ chans[s2] = "open"
        /\ sess[s1].key = sess[s2].key
        /\ s2 \in topics[sess[s2].t].connections

(***************************************************************************)
(* Properties of the broadcast.                                            *)
(***************************************************************************)
Last(q) == q[Len(q)]
NoDuplicates(q) == \A i, j \in 1..Len(q) : q[i] = q[j] => i = j
\* s has its channel from Register and has not begun to leave.
Listening(s) == sess[s].pc \in {"select", "message", "keepalive"} /\ chans[s] = "open"

\* C8: while a topic fans a message out, every listening subscriber it has
\* already visited has received that message; a subscriber that was waiting
\* in its select when visited was not closed instead; and no subscriber
\* receives a message twice.
C8_EveryReadySubscriberOnce ==
    /\ \A t \in TopicIds : topics[t].busy =>
          \A s \in Sessions :
             (sess[s].t = t /\ Listening(s) /\ s \notin topics[t].pending) =>
                 (hist.recvd[s] # << >> /\ Last(hist.recvd[s]) = topics[t].msg)
    /\ \A d \in hist.dropped : d.pc # "select"
    /\ \A s \in Sessions : NoDuplicates(hist.recvd[s])

\* One broadcast has reached two subscribers of the key.
C8_Witness ==
    \E s1, s2 \in Sessions :
        /\ s1 # s2
        /\ sess[s1].key = sess[s2].key
        /\ hist.recvd[s1] # << >>
        /\ hist.recvd[s1] = hist.recvd[s2]
        /\ \A t \in TopicIds : ~topics[t].busy

Busy == \E t \in TopicIds : topics[t].busy

\* C9: a subscriber that is not receiving blocks neither the broadcaster nor
\* the Cacher: a fan-out that has begun can always take its next step and
\* comes to its end, and the Cacher always gets back to receiving the next
\* command.
C9_SlowSubscriberNeverBlocks ==
    /\ [](\A t \in TopicIds : topics[t].busy =>
             \/ \E ch \in topics[t].pending : ENABLED RunSend(t, ch)
             \/ ENABLED RunUnlock(t))
    /\ (Busy ~> ~Busy)
    /\ ((cacherPc # "recv") ~> (cacherPc = "recv"))

\* A subscriber busy with its connection was closed, another subscriber got
\* the same message, and the Cacher is receiving again.
C9_Witness ==
    \E d \in hist.dropped : \E s \in Sessions :
        /\ s # d.ch
        /\ d.pc \in {"message", "keepalive"}
        /\ hist.recvd[s] # << >>
        /\ Last(hist.recvd[s]) = d.msg
        /\ cacherPc = "recv"

\* What is still on its way to subscriber s of topic t.
InFlight(t, s) ==
    (IF topics[t].busy /\ s \in topics[t].pending THEN <<topics[t].msg>> ELSE << >>)
       \o topics[t].Broadcast

UnregisterReturns(s) == sess[s].pc = "unregbody" /\ sess'[s].pc = "term"

\* C11: Unregister(k, ch) for a key k without a group always returns (the
\* body can run as soon as the lock is held), and the step changes nothing:
\* the map, every topic and every channel are as before and the lock is
\* released.
C11_UnregisterMissingKeyNoOp ==
    /\ [](\A s \in Sessions :
            (sess[s].pc = "unregbody" /\ ~Has(TopicMap.m, sess[s].key))
               => ENABLED UnregisterBody(s))
    /\ [][\A s \in Sessions :
            (UnregisterReturns(s) /\ ~Has(TopicMap.m, sess[s].key)) =>
               /\ TopicMap'.m = TopicMap.m
               /\ TopicMap'.writer = 0
               /\ topics' = topics
               /\ chans' = chans]_vars

\* An Unregister for a key without a group has returned while another key
\* has a group with a subscriber.
C11_Witness ==
    \E r \in hist.unreg :
        /\ ~r.ok
        /\ sess[r.s].pc \in {"term", "closed"}
        /\ \E k \in DOMAIN TopicMap.m :
              k # r.key /\ topics[TopicMap.m[k].t].connections # {}

\* C12: Unregister(k, ch) for a channel that is not in the fan-out set of
\* k's group, while other channels are, leaves the group in the registry
\* with the same topic and the same count, the fan-out set as it was and
\* every channel as it was: a second Unregister of a channel adds nothing to
\* the first.
C12_UnregisterIdempotent ==
    [][\A s \in Sessions :
         (/\ UnregisterReturns(s)
          /\ Has(TopicMap.m, sess[s].key)
          /\ s \notin topics[TopicMap.m[sess[s].key].t].connections
          /\ topics[TopicMap.m[sess[s].key].t].connections # {})
         => /\ Has(TopicMap'.m, sess[s].key)
            /\ TopicMap'.m[sess[s].key] = TopicMap.m[sess[s].key]
            /\ topics' = topics
            /\ chans' = chans]_vars

\* A task has unregistered its channel from a key and then unregistered it
\* again while another channel was in the key's fan-out set.
C12_Witness ==
    \E r1, r2 \in hist.unreg :
        /\ r1.s = r2.s /\ r1.key = r2.key
        /\ r1.ok /\ r1.member
        /\ r2.ok /\ ~r2.member /\ r2.others >= 1
        /\ sess[r2.s].pc = "closed"

(***************************************************************************)
(* Properties that relate the history and the broadcast.                   *)
(***************************************************************************)
\* No session holds or is acquiring a subscription to key.
NobodyOn(key) == Subscribers(key) = {} /\ Quiescent(key)
\* The Cacher finishes the broadcast part of a write in this step.
BroadcastStep == cacherPc = "send" /\ cacherPc' = "recv"

\* C13: when the Cacher reaches the broadcast of a write to a key nobody is
\* subscribed to, it can go on at once, and its step puts nothing on any
\* Broadcast channel, leaves every topic and the registry as they were, and
\* the message is the newest entry of the key's history.
C13_WriteWithoutSubscribers ==
    /\ []((cacherPc = "send" /\ NobodyOn(busMessage.key)) => ENABLED CacherBroadcast)
    /\ [][(BroadcastStep /\ NobodyOn(busMessage.key)) =>
            /\ topics' = topics
            /\ hist'.sent = hist.sent
            /\ TopicMap'.m = TopicMap.m
            /\ Has(c, busMessage.key)
            /\ Last(c[busMessage.key]) = busMessage.data]_vars

\* The elements of a sequence, and where x first occurs in it (0: nowhere).
Range(q) == {q[i] : i \in 1..Len(q)}
IndexOf(x, q) == IF x \in Range(q) THEN CHOOSE i \in 1..Len(q) : q[i] = x ELSE 0

\* m is in the stored history of key, or MaxQueueLength writes to key or
\* more have been applied after it.
Persisted(m, key) ==
    LET log == Log(key)
        i == IndexOf(m, log)
    IN  /\ i > 0
        /\ (Len(log) - i < MaxQueueLength) => (Has(c, key) /\ m \in Range(c[key]))

\* C14: every message a subscriber has received, and every message put on a
\* Broadcast channel, is a write the Cacher has applied and is in the stored
\* history of its key unless MaxQueueLength later writes pushed it out.
C14_BroadcastAfterPersistence ==
    /\ \A s \in Sessions : \A i \in 1..Len(hist.recvd[s]) :
          Persisted(hist.recvd[s][i], sess[s].key)
    /\ \A i \in 1..Len(hist.sent) :
          \E k \in DOMAIN TopicMap.m :
              TopicMap.m[k].t = hist.sent[i].t /\ Persisted(hist.sent[i].data, k)
    /\ (cacherPc = "send") => Persisted(busMessage.data, busMessage.key)

\* A subscriber has just taken a message that is the newest of the history.
C14_Witness ==
    \E s \in Sessions :
        /\ sess[s].pc = "message"
        /\ Has(c, sess[s].key)
        /\ sess[s].message = Last(c[sess[s].key])
        /\ Last(hist.recvd[s]) = sess[s].message

\* q lists some of the elements of r, each once, in the order they have in r.
InOrderOf(q, r) ==
    /\ \A i \in 1..Len(q) : IndexOf(q[i], r) > 0
    /\ \A i, j \in 1..Len(q) : i < j => IndexOf(q[i], r) < IndexOf(q[j], r)

\* C15: what a subscriber of a key has received, what is on its way on the
\* topic's Broadcast channel, and the stored history of the key all list
\* messages in the order in which their writes were put on CacheBus.
C15_DeliveryInIngestOrder ==
    /\ \A s \in Sessions :
          InOrderOf(hist.recvd[s], WritesTo(sess[s].key, hist.queued))
    /\ \A k \in DOMAIN TopicMap.m :
          InOrderOf(SentTo(TopicMap.m[k].t), WritesTo(k, hist.queued))
    /\ \A k \in DOMAIN c : InOrderOf(c[k], WritesTo(k, hist.queued))

\* A subscriber has received two messages, the earlier write first.
C15_Witness ==
    \E s \in Sessions :
        /\ Len(hist.recvd[s]) = 2
        /\ hist.recvd[s] = WritesTo(sess[s].key, hist.queued)

(***************************************************************************)
(* Properties of the snapshot read.                                        *)
(***************************************************************************)
\* The history the Cacher held when it served g's read.
HistoryRead(g) == LastN(ReadLog(g), Min(hist.readLive[g], MaxQueueLength))
\* g's request has been answered.
Answered(g) == getter[g].pc = "idle" /\ hist.readAt[g] >= 0

\* The numbers 1..MaxQueueLength among the raw values of "latest".
ValidLatest ==
    [f \in {<<"1">>, <<"2">>, <<"9", "9">>, <<"1", "0", "0">>} |->
        CASE f = <<"1">> -> 1
          [] f = <<"2">> -> 2
          [] f = <<"9", "9">> -> 99
          [] f = <<"1", "0", "0">> -> 100]

\* C16: the response to a read with latest = n, n in 1..MaxQueueLength, is
\* the last min(n, len) entries of the history read, in their order; with
\* no latest the response is the whole history, MaxQueueLength entries at
\* most.
C16_LatestReturnsTrailingEntries ==
    \A g \in Getters : Answered(g) =>
        LET h == HistoryRead(g)
            f == hist.form[g]
        IN  /\ f \in DOMAIN ValidLatest =>
                LET k == IF ValidLatest[f] < Len(h) THEN ValidLatest[f] ELSE Len(h)
                IN  getter[g].resp = SubSeq(h, Len(h) - k + 1, Len(h))
            /\ f = << >> =>
                (getter[g].resp = h /\ Len(getter[g].resp) <= MaxQueueLength)

\* A read with latest=2 of a history of MaxQueueLength entries has returned
\* two entries.
C16_Witness ==
    \E g \in Getters :
        /\ Answered(g)
        /\ hist.form[g] = <<"2">>
        /\ Len(HistoryRead(g)) = MaxQueueLength
        /\ Len(getter[g].resp) = 2

\* Raw values of "latest" that are no number in 1..MaxQueueLength: not a
\* number, zero, negative, too large.
InvalidLatest == {<<"x">>, <<"0">>, <<"-", "1">>, <<"1", "0", "1">>}

\* C17: a read with an invalid latest is served like any other: the handler
\* waits for the Cacher's reply with a latest in 1..MaxQueueLength, so its
\* slice bounds lie within the history, it can take the reply as soon as it
\* is there, and its response is the whole history read, as for latest =
\* MaxQueueLength.
C17_InvalidLatestMeansMaximum ==
    \A g \in Getters :
        /\ getter[g].pc = "wait" =>
              /\ getter[g].latest \in 1..MaxQueueLength
              /\ hist.form[g] \in InvalidLatest => getter[g].latest = MaxQueueLength
              /\ getter[g].backchan # << >> =>
                    LET messages == Head(getter[g].backchan)
                        lowerBound == Max(0, Len(messages) - getter[g].latest)
                    IN  /\ lowerBound \in 0..Len(messages)
                        /\ ENABLED GetReply(g)
        /\ (Answered(g) /\ hist.form[g] \in InvalidLatest) =>
              /\ getter[g].resp = HistoryRead(g)
              /\ Len(getter[g].resp) <= MaxQueueLength

\* A read with latest=-1 of a full history has returned all of it.
C17_Witness ==
    \E g \in Getters :
        /\ Answered(g)
        /\ hist.form[g] = <<"-", "1">>
        /\ Len(getter[g].resp) = MaxQueueLength

\* The Cacher takes a Read from CacheBus in this step.
ReadStep ==
    /\ cacherPc = "recv"
    /\ CacheBus # << >>
    /\ Head(CacheBus).operation = 0
    /\ CacheBus' = Tail(CacheBus)

\* C18: the Cacher can always serve a Read, its step leaves the store as it
\* is (no entry appears, no history changes), and the reply to a Read of a
\* key that has no entry is the empty sequence, which is also the response.
C18_ReadOfAbsentKeyIsEmpty ==
    /\ []((cacherPc = "recv" /\ CacheBus # << >> /\ Head(CacheBus).operation = 0)
             => ENABLED CacherRead)
    /\ [][ReadStep =>
            /\ c' = c
            /\ ~Has(c, Head(CacheBus).key) =>
                  Last(getter'[Head(CacheBus).data.backchan].backchan) = << >>]_vars
    /\ [](\A g \in Getters :
            (Answered(g) /\ hist.readLive[g] = 0) => getter[g].resp = << >>)

\* A Read of a key whose history has expired has been answered with the
\* empty sequence and the key still has no entry.
C18_Witness ==
    \E g \in Getters :
        /\ Answered(g)
        /\ hist.readLive[g] = 0
        /\ getter[g].resp = << >>
        /\ ~Has(c, getter[g].key)

(***************************************************************************)
(* Properties of push-only publication.                                    *)
(***************************************************************************)
\* C19: every POST to /push/{h}/ that has been answered was accepted, and
\* its message is a write to the key h itself, the key under which GET
\* /stream/k/ reads and /stream/k/?streaming=1 subscribes when h is the hash
\* of k: it is queued for the Cacher, or already applied to that history.
C19_PushReachesTopicQueue ==
    \A r \in hist.pushed :
        /\ r.status = 200
        /\ \/ \E p \in Posters : poster[p].pc = "send" /\ poster[p].key = r.key
                                   /\ poster[p].message = r.message
           \/ r.message \in Range(WritesTo(r.key, hist.queued))

\* The messages of topic k: every write to the key GET /stream/k/ reads.
TopicMessages(k) ==
    Range(WritesTo(hashKey(k), hist.queued)) \cup Range(CacheGet(c, hashKey(k)))

\* C20: a request made with the hash of k as its URL key gets none of the
\* messages of topic k: not in the Cacher's reply to a read, not in the
\* response, and not on the channel of a streaming session.
C20_HashCannotRead ==
    \A k \in Names :
        /\ \A g \in Getters : hist.url[g] = hashKey(k) =>
              /\ Range(getter[g].resp) \cap TopicMessages(k) = {}
              /\ \A i \in 1..Len(getter[g].backchan) :
                    Range(getter[g].backchan[i]) \cap TopicMessages(k) = {}
        /\ \A s \in Sessions : hist.surl[s] = hashKey(k) =>
              /\ Range(hist.recvd[s]) \cap TopicMessages(k) = {}
              /\ sess[s].pc \in {"register", "attach"} \/ sess[s].key # hashKey(k)

\* Topic k has a message in its history which a subscriber of k received;
\* a read made with the hash of k has been answered and a session opened
\* with the hash of k is waiting for messages.
C20_Witness ==
    \E k \in Names, g \in Getters, s1, s2 \in Sessions :
        /\ CacheGet(c, hashKey(k)) # << >>
        /\ hist.surl[s1] = k /\ hist.recvd[s1] # << >>
        /\ hist.url[g] = hashKey(k) /\ Answered(g)
        /\ hist.surl[s2] = hashKey(k) /\ sess[s2].pc = "select" /\ chans[s2] = "open"

(***************************************************************************)
(* Properties of the streaming session.                                    *)
(***************************************************************************)
\* s has returned from its loop; s has completed an Unregister.
Leaving(s) == sess[s].pc \in {"unregister", "unregbody"}
Unregistered(s) == \E r \in hist.unreg : r.s = s /\ r.key = sess[s].key
Left(s) == sess[s].pc \in {"term", "closed"}
\* A Write or Flush of s has failed.
Failed(s) == \E i \in 1..Len(hist.wire[s]) : hist.wire[s][i].op = "error"
\* s is in the fan-out set of the group it registered with.
Connected(s) == sess[s].t # 0 /\ s \in topics[sess[s].t].connections

\* C21: a session that has registered calls Unregister exactly once on
\* every way out of its loop: a session that has left has completed an
\* Unregister of its key, and a session that completes one has completed
\* none before; after a failed Write or Flush it writes nothing but the
\* terminating chunk and takes no further message or tick; and a session
\* that has returned from its loop is in the end out of the fan-out set.
C21_UnregisterOnceOnEveryExit ==
    /\ [](\A s \in Sessions : Left(s) => Unregistered(s))
    /\ [][\A s \in Sessions :
            (sess[s].pc = "unregbody" /\ sess'[s].pc # "unregbody") =>
                ~\E r \in hist.unreg : r.s = s]_vars
    /\ [](\A s \in Sessions : \A i, j \in 1..Len(hist.wire[s]) :
            (i < j /\ hist.wire[s][i].op = "error") =>
                hist.wire[s][j] \in {WireChunk(NoLine), WireClose})
    /\ [][\A s \in Sessions : Failed(s) =>
            (hist.recvd'[s] = hist.recvd[s] /\ sess'[s].pc \notin {"message", "keepalive"})]_vars
    /\ \A s \in Sessions : Leaving(s) ~> (Left(s) /\ ~Connected(s))

\* One session has left after a failed write of a message and another
\* after its channel was closed under it; both are out of the fan-out set.
C21_Witness ==
    \E s1, s2 \in Sessions :
        /\ s1 # s2
        /\ Failed(s1) /\ hist.recvd[s1] # << >>
        /\ ~Failed(s2) /\ \E d \in hist.dropped : d.ch = s2
        /\ sess[s1].pc = "closed" /\ sess[s2].pc = "closed"
        /\ ~Connected(s1) /\ ~Connected(s2)

\* s is in its wait loop: at the select or writing what it took there.
InLoop(s) == sess[s].pc \in {"select", "message", "keepalive"}
\* The chunks s has written that hold a message; its keepalive chunks.
MessageChunks(s) ==
    LET IsMessage(e) == e.op = "chunk" /\ e.chunk.size.json = 1
    IN  SelectSeq(hist.wire[s], IsMessage)
KeepaliveChunks(s) ==
    LET IsKeepalive(e) == e = WireChunk(KeepaliveLine)
    IN  SelectSeq(hist.wire[s], IsKeepalive)

\* C22: a session leaves its wait loop only by a step that records a failed
\* Write or Flush, or with its channel closed; and a session in its loop
\* whose channel is open is in the fan-out set of the group that the
\* registry holds for its key.
C22_LoopExitsOnlyOnErrorOrClose ==
    /\ [][\A s \in Sessions : (InLoop(s) /\ ~InLoop(s)') =>
            \/ hist.wire'[s] = Append(hist.wire[s], WireError)
            \/ chans[s] = "closed"]_vars
    /\ [](\A s \in Sessions : (InLoop(s) /\ chans[s] = "open") =>
            /\ ~Failed(s)
            /\ Connected(s)
            /\ Has(TopicMap.m, sess[s].key)
            /\ TopicMap.m[sess[s].key].t = sess[s].t)

\* A session has written a message and two keepalives and waits again,
\* still connected, after another session of the key has gone.
C22_Witness ==
    \E s, s2 \in Sessions :
        /\ sess[s].pc = "select" /\ chans[s] = "open" /\ Connected(s)
        /\ Len(MessageChunks(s)) >= 1
        /\ Len(KeepaliveChunks(s)) >= 2
        /\ sess[s2].pc = "closed" /\ sess[s2].key = sess[s].key

\* Where the terminating chunk and the Close stand in the record of s.
TermAt(s) == {i \in 1..Len(hist.wire[s]) : hist.wire[s][i] = WireChunk(NoLine)}
CloseAt(s) == {i \in 1..Len(hist.wire[s]) : hist.wire[s][i] = WireClose}

\* C23: a session writes the terminating chunk at most once and closes its
\* connection at most once; the terminating chunk is the last thing written
\* and only the Close follows it; the Close comes right after the
\* terminating chunk; the terminating chunk is written by a session that has
\* completed its Unregister, and a session completes Unregister once only.
C23_TeardownOrder ==
    /\ [](\A s \in Sessions :
            LET w == hist.wire[s]
            IN  /\ Cardinality(TermAt(s)) <= 1
                /\ Cardinality(CloseAt(s)) <= 1
                /\ \A i \in TermAt(s) :
                      /\ Unregistered(s)
                      /\ i >= Len(w) - 1
                      /\ i = Len(w) - 1 => w[Len(w)] = WireClose
                /\ \A j \in CloseAt(s) : j = Len(w) /\ (j - 1) \in TermAt(s))
    /\ [][\A s \in Sessions : TermAt(s)' # TermAt(s) =>
            (Unregistered(s) /\ sess[s].pc = "term" /\ UNCHANGED <<TopicMap, topics, chans>>)]_vars
    /\ [][\A s \in Sessions :
            (sess[s].pc = "unregbody" /\ sess'[s].pc # "unregbody") =>
                (TermAt(s) = {} /\ CloseAt(s) = {} /\ ~Unregistered(s))]_vars

\* A session that wrote a message has closed: Unregister done, then the
\* terminating chunk, then the Close.
C23_Witness ==
    \E s \in Sessions :
        /\ sess[s].pc = "closed"
        /\ Unregistered(s)
        /\ Len(MessageChunks(s)) >= 1
        /\ Len(hist.wire[s]) >= 4
        /\ SubSeq(hist.wire[s], Len(hist.wire[s]) - 1, Len(hist.wire[s])) =
               <<WireChunk(NoLine), WireClose>>

\* s is in its loop, has taken no message and has had no failed write.
QuietSession(s) == InLoop(s) /\ hist.recvd[s] = << >> /\ ~Failed(s)
\* The chunk of one byte, "\n".
IsNewlineChunk(e) ==
    /\ e.op = "chunk"
    /\ e.chunk.size = [json |-> 0, bytes |-> 1]
    /\ e.chunk.payload.docs = << >>
    /\ e.chunk.payload.text = "\n"
\* After the response head s has written one-byte "\n" chunks only.
OnlyKeepalives(s) ==
    /\ hist.wire[s] # << >>
    /\ Head(hist.wire[s]) = WireHead
    /\ \A i \in 2..Len(hist.wire[s]) : IsNewlineChunk(hist.wire[s][i])
\* The ticks of s not written yet: in the channel, or taken and being written.
TicksInHand(s) == sess[s].tick + (IF sess[s].pc = "keepalive" THEN 1 ELSE 0)

\* C24 as stated: a quiet session that waits with no tick in hand has
\* written one keepalive chunk for every interval elapsed, and nothing else.
C24_OneKeepalivePerInterval ==
    \A s \in Sessions :
        (QuietSession(s) /\ sess[s].pc = "select" /\ sess[s].tick = 0) =>
            (OnlyKeepalives(s) /\ Len(hist.wire[s]) - 1 = hist.ticks[s])

\* C24 amended: a quiet session has written, after the response head,
\* nothing but one-byte "\n" chunks, never more than intervals have elapsed,
\* and exactly one for every interval whose tick was not dropped: the
\* chunks written, the ticks in hand and the ticks dropped add up to the
\* intervals elapsed.
C24_OneKeepalivePerTickTaken ==
    \A s \in Sessions : QuietSession(s) =>
        /\ OnlyKeepalives(s)
        /\ Len(hist.wire[s]) - 1 <= hist.ticks[s]
        /\ (Len(hist.wire[s]) - 1) + TicksInHand(s) + hist.lost[s] = hist.ticks[s]

\* A quiet session has written two keepalives over three intervals, the
\* tick of one interval having been dropped while it was writing.
C24_Witness ==
    \E s \in Sessions :
        /\ QuietSession(s) /\ sess[s].pc = "select" /\ sess[s].tick = 0
        /\ Len(hist.wire[s]) = 3
        /\ hist.ticks[s] = 3
        /\ hist.lost[s] = 1

\* A step of the teardown of a session whose Write or Flush failed: the
\* failing write itself, the Lock of Unregister, its body, the last defers.
FailureStep(s) == sess'[s] # sess[s] /\ Failed(s)'

\* C25: no step of a failed session's teardown changes another session, its
\* channel, its place in a fan-out set or what it has received, nor the
\* registry's group of any key, nor the Cacher, its queue and its store; a
\* failed session holds the registry's lock only inside the body of its
\* Unregister; with a failed session about, a subscriber waiting in its
\* select still gets the message when the fan-out reaches it; and once the
\* failed session has left, a request for the same key can register.
C25_FailureIsIsolated ==
    /\ [][\A s \in Sessions : FailureStep(s) =>
            /\ \A o \in Sessions \ {s} :
                  /\ sess'[o] = sess[o]
                  /\ chans'[o] = chans[o]
                  /\ hist.recvd'[o] = hist.recvd[o]
                  /\ \A t \in TopicIds :
                        /\ (o \in topics[t].connections) = (o \in topics'[t].connections)
                        /\ (o \in topics[t].pending) = (o \in topics'[t].pending)
            /\ \A k \in DOMAIN TopicMap.m :
                  Has(TopicMap'.m, k) /\ TopicMap'.m[k].t = TopicMap.m[k].t
            /\ \A t \in TopicIds : topics'[t].Broadcast = topics[t].Broadcast
            /\ UNCHANGED <<CacheBus, c, cacherPc, busMessage>>]_vars
    /\ [](\A s \in Sessions : (Failed(s) /\ TopicMap.writer = s) => sess[s].pc = "unregbody")
    /\ [][\A o \in Sessions, t \in TopicIds :
            (/\ \E s \in Sessions \ {o} : Failed(s)
             /\ sess[o].pc = "select"
             /\ o \in topics[t].pending /\ o \notin topics'[t].pending) =>
                (/\ hist.recvd'[o] = Append(hist.recvd[o], topics[t].msg)
                 /\ chans'[o] = chans[o])]_vars
    /\ [](\A s, o \in Sessions :
            (Failed(s) /\ Left(s) /\ sess[o].pc = "register" /\ LockFree) =>
                ENABLED RegisterLocked(o))

\* After a session of the key failed and closed, another that was
\* registered with it has received a later broadcast on its open channel.
C25_Witness ==
    \E s, o \in Sessions :
        /\ s # o
        /\ Failed(s) /\ sess[s].pc = "closed"
        /\ sess[o].key = sess[s].key /\ sess[o].t = sess[s].t
        /\ InLoop(o) /\ chans[o] = "open" /\ Connected(o)
        /\ Len(hist.recvd[o]) = 2
        /\ hist.recvd[s] # << >>
        /\ hist.recvd[s][1] = hist.recvd[o][1]
        /\ cacherPc = "recv"

(***************************************************************************)
(* Properties of the responses, as a client reads them.                    *)
(***************************************************************************)
\* The value of member name of a JSON object.
Member(obj, name) ==
    LET i == CHOOSE i \in 1..Len(obj) : obj[i][1] = name
    IN  obj[i][2]
HasMember(obj, name) == \E i \in 1..Len(obj) : obj[i][1] = name
\* A message as the client gets it from its JSON object.
ParseMessage(obj) ==
    [name |-> Member(obj, "name"), values |-> Member(obj, "values"),
     created |-> Member(obj, "created")]
\* The message echoed to poster p; the messages returned to getter g.
Echoed(p) == ParseMessage(Member(hist.echo[p], "message"))
Returned(g) ==
    LET items == Member(hist.body[g], "messages")
    IN  [i \in 1..Len(items) |-> ParseMessage(items[i])]

\* C26: what a snapshot GET returns is, entry by entry, what the Cacher
\* read from the history; every returned message carries the URL key of the
\* request as its name; a returned message with the created timestamp of a
\* message echoed to a POST is that message, name, values and created; and
\* a GET without latest that read the history while it held the echoed
\* message returns it.
C26_RoundTrip ==
    \A g \in Getters : Answered(g) =>
        /\ HasMember(hist.body[g], "messages")
        /\ Returned(g) = getter[g].resp
        /\ \A i \in 1..Len(Returned(g)) : Returned(g)[i].name = hist.url[g]
        /\ \A p \in Posters : hist.echo[p] # << >> =>
              /\ Member(hist.echo[p], "status") = "success"
              /\ \A i \in 1..Len(Returned(g)) :
                    Returned(g)[i].created = Echoed(p).created =>
                        /\ Returned(g)[i].name = Echoed(p).name
                        /\ Returned(g)[i].values = Echoed(p).values
              /\ (hist.form[g] = << >> /\ Echoed(p) \in Range(HistoryRead(g))) =>
                    Echoed(p) \in Range(Returned(g))

\* A POST was answered and a later GET of the key has returned its message
\* as the newest entry.
C26_Witness ==
    \E g \in Getters, p \in Posters :
        /\ Answered(g)
        /\ hist.echo[p] # << >>
        /\ Returned(g) # << >>
        /\ Last(Returned(g)) = Echoed(p)
        /\ Echoed(p).name = hist.url[g]
        /\ Echoed(p).created > 0

(***************************************************************************)
(* Properties of the store's time.                                         *)
(***************************************************************************)
\* A write to k was applied less than the lifetime ago.
Fresh(k) == hist.idle[k] \in 0..(LifetimeUnits - 1)
\* The Cacher applies a write.
WriteStep ==
    /\ cacherPc = "recv"
    /\ CacheBus # << >>
    /\ Head(CacheBus).operation # 0
    /\ CacheBus' = Tail(CacheBus)

\* C27: a key has a history exactly while a write to it was applied less
\* than the lifetime ago, and the history is then all that was written
\* since the key last had none (up to MaxQueueLength); a Write leaves the
\* key with an item of age zero, whatever its age was; a Read changes
\* neither the store nor any age, and is answered with that whole history,
\* or with the empty sequence once the lifetime has passed.
C27_IdleExpiry ==
    /\ [](\A k \in AnyKey :
            /\ Has(c, k) <=> Fresh(k)
            /\ Has(c, k) =>
                  (c[k] = LastN(Log(k), Min(hist.live[k], MaxQueueLength)) /\ c[k] # << >>))
    /\ [][WriteStep =>
            (Has(c', Head(CacheBus).key) /\ age'[Head(CacheBus).key] = 0)]_vars
    /\ [][ReadStep =>
            LET k == Head(CacheBus).key
                reply == Last(getter'[Head(CacheBus).data.backchan].backchan)
            IN  /\ c' = c /\ age' = age
                /\ reply = IF Fresh(k)
                           THEN LastN(Log(k), Min(hist.live[k], MaxQueueLength))
                           ELSE << >>]_vars

\* A key was written, a read found its history, the lifetime passed with no
\* further write, and a second read has been answered with the empty
\* sequence.
C27_Witness ==
    \E g \in Getters :
        /\ Answered(g)
        /\ getter[g].resp = << >>
        /\ ReadLog(g) # << >>
        /\ hist.idle[getter[g].key] = LifetimeUnits
        /\ ~Has(c, getter[g].key)

(***************************************************************************)
(* Properties of a full CacheBus.                                          *)
(***************************************************************************)
Full == Len(CacheBus) = CacheBusCap
\* The read commands of g waiting on CacheBus.
ReadsQueued(g) ==
    {i \in DOMAIN CacheBus : CacheBus[i].operation = 0 /\ CacheBus[i].data.backchan = g}
\* The step puts one command behind those waiting.
Enqueues ==
    /\ Len(CacheBus') = Len(CacheBus) + 1
    /\ SubSeq(CacheBus', 1, Len(CacheBus)) = CacheBus
\* The step takes the oldest command waiting and applies it: a write ends in
\* the key's history and in the record of applied writes, a read is
\* answered on its own backchan.
TakesAndApplies ==
    /\ CacheBus # << >>
    /\ CacheBus' = Tail(CacheBus)
    /\ LET cmd == Head(CacheBus)
       IN  IF cmd.operation # 0
           THEN /\ c' = Put(c, cmd.key, CacherAppend(CacheGet(c, cmd.key), cmd.data))
                /\ hist'.applied = Append(hist.applied, cmd)
                /\ getter' = getter
           ELSE /\ getter'[cmd.data.backchan].backchan = <<CacheGet(c, cmd.key)>>
                /\ c' = c
                /\ hist'.applied = hist.applied

\* C28: CacheBus never holds more than CacheBusCap commands; while it holds
\* CacheBusCap, no handler's send can happen and the only change to the
\* queue is the Cacher taking its oldest command; every change to the queue
\* puts one command at its end or takes the oldest one and applies it, so
\* nothing queued is dropped, overwritten or reordered; the writes sent are
\* the writes applied followed by the writes waiting, and a read that has
\* been sent is either waiting once or answered once.
C28_BackpressureWithoutLoss ==
    /\ [](Len(CacheBus) <= CacheBusCap)
    /\ [](Full => /\ \A p \in Posters : ~ENABLED PostSend(p)
                  /\ \A g \in Getters : ~ENABLED GetSend(g, WarmName, << >>, {}))
    /\ [][Full => (CacheBus' = CacheBus \/ (cacherPc = "recv" /\ TakesAndApplies))]_vars
    /\ [][CacheBus' = CacheBus \/ (~Full /\ Enqueues) \/ TakesAndApplies]_vars
    /\ [](hist.queued = hist.applied \o WritesQueued)
    /\ [](\A g \in Getters :
            getter[g].pc = "wait" =>
                Cardinality(ReadsQueued(g)) + Len(getter[g].backchan) = 1)

\* CacheBus is full again after the Cacher has taken commands: a command
\* made during the run went in behind the backlog when room was made, and
\* another handler is waiting with its command.
C28_Witness ==
    /\ Full
    /\ hist.applied # << >>
    /\ Last(CacheBus).operation # 0
    /\ Last(CacheBus).data.created > 0
    /\ \E p \in Posters : poster[p].pc = "send"

(***************************************************************************)
(* Properties of histories and groups together.                            *)
(***************************************************************************)
\* A session takes a step of Register or of Unregister.
RegistryStep ==
    \E s \in Sessions :
        /\ sess[s].pc \in {"register", "attach", "unregister", "unregbody"}
        /\ sess'[s].pc # sess[s].pc
\* The sessions in the fan-out set of key's group.
FanOut(key) ==
    IF Has(TopicMap.m, key) THEN topics[TopicMap.m[key].t].connections ELSE {}

\* C29: a step of Register or Unregister changes no key's history and no
\* item's age; a key that was written has its history whether or not it
\* has subscribers, the last subscriber's Unregister included; and a Read
\* of a key that was never written is answered with the empty sequence
\* whether or not sessions are registered on the key.
C29_IndependentLifecycles ==
    /\ [][RegistryStep => (c' = c /\ age' = age)]_vars
    /\ [](\A k \in AnyKey :
            hist.live[k] > 0 =>
                (Has(c, k) /\ c[k] = LastN(Log(k), Min(hist.live[k], MaxQueueLength))))
    /\ [][\A s \in Sessions :
            (sess[s].pc = "unregbody" /\ sess'[s].pc = "term"
                /\ FanOut(sess[s].key)' = {}) =>
                    CacheGet(c', sess[s].key) = CacheGet(c, sess[s].key)]_vars
    /\ [][ReadStep =>
            LET k == Head(CacheBus).key
                reply == Last(getter'[Head(CacheBus).data.backchan].backchan)
            IN  (hist.live[k] = 0 => reply = << >>) /\ reply = CacheGet(c, k)]_vars

\* The only subscriber of the written key has taken a message and has
\* left, and the key has its history; a session is in the fan-out set of
\* the other key, which has no history, and a Read of that key has been
\* answered with the empty sequence.
C29_Witness ==
    \E s1, s2 \in Sessions : \E g \in Getters :
        /\ Left(s1)
        /\ sess[s1].key = hashKey(WrittenName)
        /\ hist.recvd[s1] # << >>
        /\ \E r \in hist.unreg : r.s = s1 /\ r.member /\ r.others = 0
        /\ FanOut(hashKey(WrittenName)) = {}
        /\ Has(c, hashKey(WrittenName))
        /\ c[hashKey(WrittenName)] = Log(hashKey(WrittenName))
        /\ c[hashKey(WrittenName)] # << >>
        /\ sess[s2].pc = "select"
        /\ sess[s2].key = hashKey(ReadName)
        /\ s2 \in FanOut(hashKey(ReadName))
        /\ ~Has(c, hashKey(ReadName))
        /\ getter[g].key = hashKey(ReadName)
        /\ hist.readAt[g] >= 0
        /\ getter[g].backchan \o <<getter[g].resp>> \in {<< << >> >>, << << >>, << >> >>}

(***************************************************************************)
(* Properties of the registry's lock.                                      *)
(***************************************************************************)
\* The Cacher holds the read lock and is sending, or about to send, to the
\* group of its message's key.
SendingTo(t) ==
    /\ cacherPc = "send"
    /\ Has(TopicMap.m, busMessage.key)
    /\ TopicMap.m[busMessage.key].t = t
\* A step of Register or Unregister by s changes the fan-out set of topic t
\* or the map entry that holds it.
Mutates(s, t) ==
    /\ sess[s].pc \in {"register", "attach", "unregbody"}
    /\ sess'[s].pc # sess[s].pc
    /\ \/ topics'[t].connections # topics[t].connections
       \/ \E k \in DOMAIN TopicMap.m :
             /\ TopicMap.m[k].t = t
             /\ (~Has(TopicMap'.m, k) \/ TopicMap'.m[k] # TopicMap.m[k])

\* C30: the Cacher is never sending while a Register or an Unregister holds
\* the lock, and while the Cacher is sending to a key's group no step of
\* Register or Unregister changes that group's fan-out set or its entry.
C30_BroadcastExcludesMutation ==
    /\ [](~(cacherPc = "send" /\ TopicMap.writer # 0))
    /\ [][\A t \in DOMAIN topics : \A s \in Sessions :
            SendingTo(t) => ~Mutates(s, t)]_vars

(***************************************************************************)
(* Properties of the keepalive's timing.                                   *)
(***************************************************************************)
\* s writes a keepalive chunk.
KeepaliveStep(s) == sess[s].pc = "keepalive" /\ sess'[s].pc = "select"

\* C31: a session writes a keepalive chunk only after a keepalive interval
\* in which it wrote no message chunk: when the keepalive is written, the
\* end of an interval, at the least, lies between it and the last message
\* chunk (with none between them, the two are less than an interval apart).
C31_KeepaliveOnlyWhenIdle ==
    [][\A s \in Sessions :
         (KeepaliveStep(s) /\ MessageChunks(s) # << >>) => hist.quiet[s] = 1]_vars

(***************************************************************************)
(* Properties of the sessions' output buffers.                             *)
(***************************************************************************)
\* s comes back to its select from a Write and Flush.
WrittenStep(s) == sess[s].pc \in {"message", "keepalive"} /\ sess'[s].pc = "select"

\* The Flush of the response head of s succeeded.
HeadFlushed(s) == hist.wire[s] # << >> /\ Head(hist.wire[s]) = WireHead

BlockedSend ==
    /\ cacherPc = "send"
    /\ TopicMap.reader
    /\ Has(TopicMap.m, busMessage.key)
    /\ Len(topics[TopicMap.m[busMessage.key].t].Broadcast) = BroadcastCap

\* A goroutine is in the middle of the Cacher's iteration, of Register, of
\* Unregister or of a fan-out.
Engaged ==
    \/ cacherPc # "recv"
    \/ Busy
    \/ \E s \in Sessions : sess[s].pc \in {"register", "attach", "unregister", "unregbody"}

\* One of them can take its next step.
CanStep ==
    \/ ENABLED CacherNext
    \/ ENABLED RunNext
    \/ \E s \in Sessions :
         \/ ENABLED RegisterLocked(s)
         \/ ENABLED RegisterAttach(s)
         \/ ENABLED UnregisterLock(s)
         \/ ENABLED UnregisterBody(s)

\* The read command the Cacher takes next, if that is what heads CacheBus.
NextIsRead == cacherPc = "recv" /\ CacheBus # << >> /\ Head(CacheBus).operation = 0

\* C33: the Cacher, the holders of the registry's lock and the run
\* goroutines never all wait for each other: while one of them is in the
\* middle of its work one of them can step; a send of the Cacher that waits
\* at a full Broadcast channel with the reader's lock held completes, also
\* while sessions call Register and Unregister; and the backchan of the read
\* the Cacher takes next is empty, so that the reply has room.
C33_NeverDeadlocks ==
    /\ [](Engaged => CanStep)
    /\ [](NextIsRead => getter[Head(CacheBus).data.backchan].backchan = << >>)
    /\ (BlockedSend ~> (cacherPc = "recv" /\ ~TopicMap.reader))

\* The Cacher's send waits at the full channel with the reader's lock held
\* while one session waits for the lock in Register and the GET handler
\* waits for the reply to its read.
C33_Witness ==
    /\ BlockedSend
    /\ \E s \in Sessions : sess[s].pc = "register"
    /\ \E g \in Getters : getter[g].pc = "wait"

(***************************************************************************)
(* Properties of a read that follows a write on CacheBus.                  *)
(***************************************************************************)
\* The messages of the writes to the key of g's read that were sent on
\* CacheBus before the read was, in the order of their sends.
SentBefore(g) == WritesTo(getter[g].key, SubSeq(hist.queued, 1, hist.sentAt[g]))

\* The Cacher has replied to g's read and the handler has not taken the reply.
Replied(g) == getter[g].backchan # << >> /\ hist.readAt[g] >= 0

DroppedAsSlow(s) == \E d \in hist.dropped : d.ch = s

\* C35: no close of a closed channel and no send on a closed channel ever
\* happens (either would leave the channel in "panic"): every channel a run
\* goroutine has in its fan-out set, or still has to visit, is open, and the
\* Unregister of a session whose channel a run goroutine closed returns and
\* leaves the channel as it was, closed once.
C35_NoDoubleCloseNoSendOnClosed ==
    /\ [](\A s \in Sessions : chans[s] # "panic")
    /\ [](\A t \in TopicIds :
            \A ch \in topics[t].connections \cup topics[t].pending : chans[ch] = "open")
    /\ [][\A s \in Sessions :
            (UnregisterReturns(s) /\ DroppedAsSlow(s)) => chans'[s] = "closed"]_vars

\* A session that the first broadcast of the run closed as slow has run its
\* Unregister, which found the channel no longer connected, and another
\* session has received that broadcast and a further one.
C35_Witness ==
    \E s, o \in Sessions :
        /\ \E d \in hist.dropped : d.ch = s /\ d.msg = hist.sent[1].data
        /\ sess[s].pc = "term"
        /\ chans[s] = "closed"
        /\ \E r \in hist.unreg : r.s = s /\ r.ok /\ ~r.member
        /\ Len(hist.recvd[o]) = MaxWrites

(***************************************************************************)
(* Properties of the separation of keys.                                   *)
(***************************************************************************)
\* The messages of the writes that were sent on CacheBus for key.
WrittenTo(key) == Range(WritesTo(key, hist.queued))

\* The Cacher applies a write for key in this step; it ends the broadcast
\* of a write for key in this step.
AppliesWriteTo(key) ==
    cacherPc = "recv" /\ cacherPc' = "rlock" /\ busMessage'.key = key
BroadcastsFor(key) ==
    cacherPc = "send" /\ cacherPc' = "recv" /\ busMessage.key = key

\* C36: a subscriber of a key receives, and a Read of a key returns, only
\* messages that were written to that key; the same holds for the stored
\* history and for what waits on the Broadcast channel of the key's group;
\* and the Cacher's work for a write to one key leaves the history and the
\* Broadcast channel of every other key as they were.
C36_KeyIsolation ==
    /\ [](\A s \in Sessions : Range(hist.recvd[s]) \subseteq WrittenTo(sess[s].key))
    /\ [](\A g \in Getters :
            /\ Range(getter[g].resp) \subseteq WrittenTo(getter[g].key)
            /\ \A i \in 1..Len(getter[g].backchan) :
                  Range(getter[g].backchan[i]) \subseteq WrittenTo(getter[g].key))
    /\ [](\A k \in DOMAIN c : Range(c[k]) \subseteq WrittenTo(k))
    /\ [](\A k \in DOMAIN TopicMap.m :
            Range(topics[TopicMap.m[k].t].Broadcast) \subseteq WrittenTo(k))
    /\ [][\A k2 \in StoreKeys : \A k \in StoreKeys \ {k2} :
            /\ AppliesWriteTo(k2) => CacheGet(c', k) = CacheGet(c, k)
            /\ (BroadcastsFor(k2) /\ Has(TopicMap.m, k)) =>
                  topics'[TopicMap.m[k].t] = topics[TopicMap.m[k].t]]_vars

\* Both keys have a history and a subscriber that has received a message;
\* the write to the second key was applied after the first key had its
\* history and its subscriber, and a Read of the first key was answered
\* after both writes.
C36_Witness ==
    \E s1, s2 \in Sessions, g \in Getters :
        /\ sess[s1].key = hashKey(WrittenName) /\ hist.recvd[s1] # << >>
        /\ sess[s2].key = hashKey(ReadName) /\ hist.recvd[s2] # << >>
        /\ Len(hist.applied) = 2
        /\ hist.applied[1].key = hashKey(WrittenName)
        /\ hist.applied[2].key = hashKey(ReadName)
        /\ Answered(g) /\ hist.readAt[g] = 2
        /\ Len(getter[g].resp) = 1

(***************************************************************************)
(* Properties of the lifetime of the run goroutines.                       *)
(***************************************************************************)
\* The topics of the groups the registry holds.
RegistryTopics == {TopicMap.m[k].t : k \in DOMAIN TopicMap.m}

Seen(g) == Deref(heap, heap.snap[g])
SharesArray(g) == heap.snap[g].shared

\* C38: the slice stored for a key shows the key's history; from the reply
\* on, the slice a reader holds shows the messages the Cacher held when it
\* replied, whatever is written to the key meanwhile: no step changes what
\* a reader sees, and the response is made of the messages of the reply.
C38_SnapshotIsPointInTime ==
    /\ [](\A k \in DOMAIN c : Stored(heap, k) = c[k])
    /\ [](\A g \in Getters : Replied(g) => Seen(g) = Head(getter[g].backchan))
    /\ [][\A g \in Getters :
            /\ (Replied(g) /\ getter'[g].backchan = getter[g].backchan) =>
                  Deref(heap', heap'.snap[g]) = Seen(g)
            /\ (Replied(g) /\ getter'[g].pc = "idle") =>
                  getter'[g].resp = LatestSlice(Head(getter[g].backchan), getter[g].latest)]_vars

\* A reader holds a slice of MaxQueueLength - 1 messages in the array the
\* store still uses, and since the reply one write was appended behind the
\* reader's slice in that array and another evicted the oldest entry.
C38_Witness ==
    \E g \in Getters :
        /\ Replied(g)
        /\ SharesArray(g)
        /\ heap.snap[g].len = MaxQueueLength - 1
        /\ heap.off[getter[g].key] > heap.snap[g].off
        /\ heap.len[getter[g].key] = MaxQueueLength

====
